---------------------------- MODULE Spec2Model ----------------------------
(***************************************************************************)
(* A model of the Scientific RAG prototype: the retriever                  *)
(* (src/retrieval/retriever.py), the chat engine (src/chatbot/engine.py)   *)
(* and the Streamlit app's session handling and image filter (app.py),     *)
(* the chunker (src/processing/chunker.py), the PDF parsers                *)
(* (src/extraction/pdf_parser.py), the vector store manager                *)
(* (src/storage/vector_store.py) and the ingestion script                  *)
(* (scripts/ingest.py).                                                    *)
(*                                                                         *)
(* Conventions.                                                            *)
(*  - A Python str that the code slices, strips, lower-cases or searches   *)
(*    is a sequence of one-character strings; a str that is only copied    *)
(*    (a file name, a content type, an image path) is an atomic string.    *)
(*  - A similarity score is an integer number of 1/10000 (0.42 is 4200);   *)
(*    a score rounded to 3 decimals is an integer number of 1/1000.        *)
(*  - An optional value (a Python None, an argument not yet given, a       *)
(*    result not yet returned) is Nothing or Just(v).                      *)
(***************************************************************************)
EXTENDS Integers, Sequences, FiniteSets, TLC

VARIABLES
    \* ---- ScientificRetriever (one call = one action) ----
    rq,             \* the last retrieve() call's arguments, or Nothing
    retrieved,      \* the list the last retrieve() returned
    context,        \* the string the last format_context_for_llm() returned, or Nothing
    \* ---- _extract_sources_and_images as a function of its arguments ----
    xq,             \* the last call's arguments (response.source_nodes, message), or Nothing
    xsources,       \* the citation records it returned
    ximages,        \* the image paths it returned
    \* ---- render_images ----
    candidates,     \* the image list the last render_images() call was given, or Nothing
    valid_images,   \* the images it accepted, in order
    \* ---- the Streamlit app: one engine cache, several browser sessions ----
    document_count, \* collection.count() of the persisted vector collection
    api_key,        \* whether GROQ_API_KEY is set
    engine_cache,   \* st.cache_resource's entry for load_chat_engine(), or Nothing
    engines,        \* the ScientificChatEngine objects built so far: id -> fields
    session_state,  \* st.session_state of each session
    pc,             \* where each session's script run stands
    response_gen,   \* each session's streaming response object, or Nothing
    full_response,  \* each session's st.write_stream result, or Nothing
    calls,          \* the turns submitted and the collaborators' invocations so far
    eturn,          \* the last call of the engine's own API and what it returned
    \* ---- ScientificChunker (one call = one action) ----
    docs,           \* the document list chunk_documents() is given, or Nothing
    all_nodes,      \* the nodes the last chunk_documents() returned
    residual,       \* what _remove_special_content() returned for each document's text
    \* ---- the ingestion script and the persisted vector collection ----
    pdf_files,      \* the PDF files of the data directory, or Nothing
    ingest,         \* the ingestion run: its position and its local variables
    collection,     \* the persisted collection: whether it exists, what it holds
    reader          \* what each reader of the collection observed last

vars == <<rq, retrieved, context, xq, xsources, ximages, candidates, valid_images,
          document_count, api_key, engine_cache, engines, session_state, pc,
          response_gen, full_response, calls, eturn,
          docs, all_nodes, residual, pdf_files, ingest, collection, reader>>

\* Optional values.
Nothing == <<>>
Just(v) == <<v>>
IsSet(o) == o # <<>>
Val(o) == o[1]

-----------------------------------------------------------------------------
(* Bounds of the model.                                                    *)

\* Chunks stored in the vector collection.
NumChunks == 6
\* Browser sessions of the app.
NumSessions == 2
\* User turns submitted over all sessions before the model stops taking more.
MaxTurns == 2
\* Images in one render_images() call.
MaxImages == 3

-----------------------------------------------------------------------------
(* Python helpers.                                                         *)

Min(a, b) == IF a <= b THEN a ELSE b

\* dict.get(key, default)
MetaGet(meta, key, default) == IF key \in DOMAIN meta THEN meta[key] ELSE default

\* seq[:n]
Take(s, n) == SubSeq(s, 1, Min(n, Len(s)))

RECURSIVE Concat(_)
\* "".join(parts) for a list of strings
Concat(parts) ==
    IF parts = <<>> THEN <<>> ELSE Head(parts) \o Concat(Tail(parts))

UpperCase == <<"A", "B", "C", "D", "E", "F", "G", "H", "I", "J", "K", "L", "M",
               "N", "O", "P", "Q", "R", "S", "T", "U", "V", "W", "X", "Y", "Z">>
LowerCase == <<"a", "b", "c", "d", "e", "f", "g", "h", "i", "j", "k", "l", "m",
               "n", "o", "p", "q", "r", "s", "t", "u", "v", "w", "x", "y", "z">>

UpperCaseLetters == {UpperCase[k] : k \in 1..Len(UpperCase)}

\* str.lower(), on the ASCII letters
Lower(s) ==
    [i \in 1..Len(s) |->
        IF s[i] \in UpperCaseLetters
        THEN LowerCase[CHOOSE k \in 1..Len(UpperCase) : UpperCase[k] = s[i]]
        ELSE s[i]]

Whitespace == {" ", "\t", "\n", "\r"}

RECURSIVE LStrip(_, _)
\* str.lstrip(chars)
LStrip(s, chars) ==
    IF s # <<>> /\ Head(s) \in chars THEN LStrip(Tail(s), chars) ELSE s

RECURSIVE RStrip(_, _)
\* str.rstrip(chars)
RStrip(s, chars) ==
    IF s # <<>> /\ s[Len(s)] \in chars
    THEN RStrip(SubSeq(s, 1, Len(s) - 1), chars)
    ELSE s

\* str.strip(chars): drop the leading and trailing characters that are in chars
Strip(s, chars) == RStrip(LStrip(s, chars), chars)

\* sub in s, for two strings
Contains(s, sub) ==
    \E i \in 0..(Len(s) - Len(sub)) : SubSeq(s, i + 1, i + Len(sub)) = sub

RECURSIVE SplitFrom(_, _, _)
\* str.split() from position i on, word being the run of non-whitespace
\* characters read so far
SplitFrom(s, i, word) ==
    IF i > Len(s) THEN (IF word = <<>> THEN <<>> ELSE <<word>>)
    ELSE IF s[i] \in Whitespace
         THEN (IF word = <<>> THEN <<>> ELSE <<word>>) \o SplitFrom(s, i + 1, <<>>)
         ELSE SplitFrom(s, i + 1, Append(word, s[i]))

\* str.split(): the maximal runs of non-whitespace characters
Split(s) == SplitFrom(s, 1, <<>>)

Digits == <<"0", "1", "2", "3", "4", "5", "6", "7", "8", "9">>

RECURSIVE StrOfInt(_)
\* str(n) for n >= 0
StrOfInt(n) ==
    IF n < 10 THEN <<Digits[n + 1]>>
    ELSE StrOfInt(n \div 10) \o <<Digits[(n % 10) + 1]>>

IsDigit(c) == \E k \in 1..10 : Digits[k] = c

RECURSIVE DigitsValue(_)
DigitsValue(s) ==
    IF s = <<>> THEN 0
    ELSE 10 * DigitsValue(SubSeq(s, 1, Len(s) - 1))
         + (CHOOSE k \in 1..10 : Digits[k] = s[Len(s)]) - 1

\* A Python value that is either a str or an int.
PyStr(s) == [py |-> "str", v |-> s]
PyInt(n) == [py |-> "int", v |-> n]

\* int(x) under "try: ... except: pass": Nothing when x is a str that is no
\* decimal number.
IntOrNone(x) ==
    IF x.py = "int" THEN Just(x.v)
    ELSE IF x.v # <<>> /\ \A i \in 1..Len(x.v) : IsDigit(x.v[i])
         THEN Just(DigitsValue(x.v))
         ELSE Nothing

-----------------------------------------------------------------------------
(* The stored collection: what ingestion left in the vector index.  Chunk  *)
(* c's fields are given by formula so that any NumChunks is defined.       *)

Chunks == 1..NumChunks

ContentTypes == {"text", "table", "equation", "figure"}

\* The image map _extract_images() builds for a PDF: page number -> paths.
\* Paths are named {stem}_p{page}_i{index}.{ext}, so a path belongs to one page.
ImageMapOf(stem) ==
    IF stem = "paper_a"
    THEN [p \in {1, 2, 4} |->
            IF p = 1 THEN <<"paper_a_p1_i1.png">>
            ELSE IF p = 2 THEN <<"paper_a_p2_i1.png", "paper_a_p2_i2.png">>
            ELSE <<"paper_a_p4_i1.png">>]
    ELSE [p \in {3} |-> <<"paper_b_p3_i1.jpeg">>]

\* json.dumps(image_map): a JSON object's keys are strings, so every integer
\* page key is written as its decimal string.  The JSON text is modelled by
\* the object it denotes.
JsonDumps(image_map) ==
    [k \in {StrOfInt(p) : p \in DOMAIN image_map} |->
        image_map[CHOOSE p \in DOMAIN image_map : StrOfInt(p) = k]]

\* json.loads(text): the dict the JSON text denotes (string keys).
JsonLoads(text) == [k \in DOMAIN text |-> text[k]]

ChunkTextOf(c) ==
    LET n == CASE c % 4 = 1 -> 201
               [] c % 4 = 2 -> 200
               [] c % 4 = 3 -> 7
               [] OTHER     -> 12
    IN  [i \in 1..n |-> IF i > 200 THEN "z" ELSE IF i % 2 = 0 THEN "a" ELSE "b"]

ChunkType(c) ==
    CASE c % 4 = 1 -> "text"
      [] c % 4 = 2 -> "figure"
      [] c % 4 = 3 -> "table"
      [] OTHER     -> "equation"

\* The text of every stored chunk.
ChunkTexts == [c \in Chunks |-> ChunkTextOf(c)]
ChunkText(c) == ChunkTexts[c]

ChunkPage(c) == 1 + (c % 3)

\* Chunks 1..4 come from paper_a.pdf and later even ones from paper_b.pdf, both
\* parsed by PDFParser.parse_single_pdf; the other later chunks come from
\* paper_c.pdf, parsed by the PyMuPDFParser fallback (integer page_num, no
\* page_label, no image_map).
ChunkStem(c) == IF c <= 4 THEN "paper_a" ELSE IF c % 2 = 0 THEN "paper_b" ELSE "paper_c"

ChunkMetadataOf(c) ==
    LET stem == ChunkStem(c)
        page == ChunkPage(c)
    IN  IF stem = "paper_c"
        THEN [k \in {"source", "page_num", "doc_id", "content_type"} |->
                CASE k = "source"       -> "paper_c.pdf"
                  [] k = "page_num"     -> PyInt(page)
                  [] k = "doc_id"       -> stem
                  [] OTHER              -> ChunkType(c)]
        ELSE [k \in {"source", "doc_id", "page_label", "page_num", "image_map",
                     "content_type"} |->
                CASE k = "source"       -> IF stem = "paper_a" THEN "paper_a.pdf"
                                                               ELSE "paper_b.pdf"
                  [] k = "doc_id"       -> stem
                  [] k = "page_label"   -> PyStr(StrOfInt(page))
                  [] k = "page_num"     -> PyStr(StrOfInt(page))
                  [] k = "image_map"    -> JsonDumps(ImageMapOf(stem))
                  [] OTHER              -> ChunkType(c)]

\* The metadata of every stored chunk.
ChunkMetadatas == [c \in Chunks |-> ChunkMetadataOf(c)]
ChunkMetadata(c) == ChunkMetadatas[c]

\* The similarity scores a query can have against a stored chunk (1/10000):
\* below the cutoff, at it, above it.
Scores == {4200, 5000, 9137}

\* A query, as far as retrieval sees it: its similarity to every stored chunk.
Scorings == [Chunks -> Scores]

\* A NodeWithScore: node.node is chunk id's text and metadata.
NodeWithScore(c, s) == [id |-> c, score |-> s]

-----------------------------------------------------------------------------
(* ScientificRetriever (src/retrieval/retriever.py).                       *)

SIMILARITY_TOP_K == 5
RERANK_TOP_N == 3
\* SimilarityPostprocessor(similarity_cutoff=0.5), in 1/10000.
SimilarityCutoff == 5000

RECURSIVE TopK(_, _, _)
\* The k nearest of the chunks in S, nearest first.  Chunks of equal score
\* come in the order of their ids (the index's own order among equals).
TopK(S, scoring, k) ==
    IF S = {} \/ k = 0 THEN <<>>
    ELSE LET best == CHOOSE c \in S : \A d \in S :
                        \/ scoring[c] > scoring[d]
                        \/ scoring[c] = scoring[d] /\ c <= d
         IN  <<NodeWithScore(best, scoring[best])>>
             \o TopK(S \ {best}, scoring, k - 1)

\* VectorIndexRetriever(index, similarity_top_k).retrieve(query): the
\* similarity_top_k nearest stored chunks, ranked by similarity.
VectorIndexRetrieve(scoring, similarity_top_k) == TopK(Chunks, scoring, similarity_top_k)

\* Faulty variant of SimilarityFilter: the postprocessor is not applied.
SimilarityFilter_Skipped(nodes) == nodes

\* SimilarityPostprocessor.postprocess_nodes(nodes): a node is kept unless its
\* score is below the cutoff.
SimilarityFilter(nodes) ==
    LET Keep(n) == ~(n.score < SimilarityCutoff)
    IN  SelectSeq(nodes, Keep)

NodeContentType(n) == MetaGet(ChunkMetadata(n.id), "content_type", "text")

\* Faulty variant of ContentTypeFilter: the content-type filter is not applied.
ContentTypeFilter_Skipped(nodes, content_types) == nodes

\* The list comprehension of retrieve(): "if content_types:" is false for
\* None and for an empty list.
ContentTypeFilter(nodes, content_types) ==
    IF content_types = Nothing \/ Val(content_types) = {} THEN nodes
    ELSE LET Keep(n) == NodeContentType(n) \in Val(content_types)
         IN  SelectSeq(nodes, Keep)

\* Faulty variant of Truncate: the result is not cut to rerank_top_n.
Truncate_NoCap(nodes) == nodes

\* nodes[:self.rerank_top_n]
Truncate(nodes) == Take(nodes, RERANK_TOP_N)

\* Faulty variant of Retrieve: the candidates are cut to rerank_top_n before
\* they are filtered.
Retrieve_TruncateFirst(scoring, content_types) ==
    ContentTypeFilter(
        SimilarityFilter(Truncate(VectorIndexRetrieve(scoring, SIMILARITY_TOP_K))),
        content_types)

\* ScientificRetriever.retrieve(query, content_types)
Retrieve(scoring, content_types) ==
    Truncate(ContentTypeFilter(
        SimilarityFilter(VectorIndexRetrieve(scoring, SIMILARITY_TOP_K)),
        content_types))

\* str(x) as an f-string renders a metadata value
PyToStr(x) == IF x.py = "int" THEN StrOfInt(x.v) ELSE x.v

Separator == "\n---\n"

\* Faulty variant of ContextPart: the blocks are numbered from 0 (enumerate(nodes)).
ContextPart_FromZero(i, n) ==
    LET meta == ChunkMetadata(n.id)
    IN  << "[Source ", StrOfInt(i - 1), ": ", MetaGet(meta, "source", "Unknown"),
           ", Page ", PyToStr(MetaGet(meta, "page_num", PyStr(<<"?">>))),
           ", Type: ", MetaGet(meta, "content_type", "text"), "]",
           "\n", ChunkText(n.id), "\n" >>

\* One f"{header}\n{node.node.text}\n" of format_context_for_llm, as the
\* sequence of its pieces.
ContextPart(i, n) ==
    LET meta == ChunkMetadata(n.id)
    IN  << "[Source ", StrOfInt(i), ": ", MetaGet(meta, "source", "Unknown"),
           ", Page ", PyToStr(MetaGet(meta, "page_num", PyStr(<<"?">>))),
           ", Type: ", MetaGet(meta, "content_type", "text"), "]",
           "\n", ChunkText(n.id), "\n" >>

RECURSIVE JoinParts(_)
\* "\n---\n".join(context_parts)
JoinParts(parts) ==
    IF parts = <<>> THEN <<>>
    ELSE IF Len(parts) = 1 THEN parts[1]
    ELSE parts[1] \o <<Separator>> \o JoinParts(Tail(parts))

\* ScientificRetriever.format_context_for_llm(nodes)
FormatContextForLlm(nodes) ==
    JoinParts([i \in 1..Len(nodes) |-> ContextPart(i, nodes[i])])

\* The content_types argument: None, or a list, which retrieve() only tests
\* membership in (so a set; Just({}) is the empty list).
FilterArgs == {Nothing} \cup {Just(S) : S \in SUBSET ContentTypes}

\* The variables of the other components, left as constructed.
IdleExtract == xq = Nothing /\ xsources = Nothing /\ ximages = Nothing
IdleImages == candidates = Nothing /\ valid_images = Nothing
IdleRetriever == rq = Nothing /\ retrieved = Nothing /\ context = Nothing
IdleChunker == docs = Nothing /\ all_nodes = Nothing /\ residual = Nothing
IdleStore ==
    pdf_files = Nothing /\ ingest = Nothing /\ collection = Nothing /\ reader = Nothing
IdleIngestion == IdleChunker /\ IdleStore

retrieverVars == <<rq, retrieved, context>>
extractVars == <<xq, xsources, ximages>>
imageVars == <<candidates, valid_images>>
chunkerVars == <<docs, all_nodes, residual>>
storeVars == <<pdf_files, ingest, collection, reader>>
ingestionVars == <<chunkerVars, storeVars>>
appVars == <<document_count, api_key, engine_cache, engines, session_state, pc,
             response_gen, full_response, calls, eturn>>

-----------------------------------------------------------------------------
(* ScientificChatEngine._extract_sources_and_images                        *)
(* (src/chatbot/engine.py).                                                *)

\* The similarity scores of the nodes a response carries: the chat engine's
\* own retriever applies no cutoff, so any score in [0, 1] can come.
ResponseScores == {0, 4205, 9137}

\* bool(x) for a str or an int
PyTruthy(x) == IF x.py = "int" THEN x.v # 0 ELSE x.v # <<>>

\* round(x, 3) of a score given in 1/10000, in 1/1000: to the nearest, a tie
\* going to the even neighbour.
Round3(x) ==
    LET q == x \div 10
        r == x % 10
    IN  IF r < 5 THEN q
        ELSE IF r > 5 THEN q + 1
        ELSE IF q % 2 = 0 THEN q ELSE q + 1

PREVIEW_LEN == 200
Ellipsis == <<".", ".", ".">>

\* node.node.text[:200] + "..." if len(node.node.text) > 200 else node.node.text
TextPreview(text) ==
    IF Len(text) > PREVIEW_LEN THEN Take(text, PREVIEW_LEN) \o Ellipsis ELSE text

\* metadata.get("page_label") or metadata.get("page_num", "?")
CitationPage(meta) ==
    IF "page_label" \in DOMAIN meta /\ PyTruthy(meta["page_label"])
    THEN meta["page_label"]
    ELSE MetaGet(meta, "page_num", PyStr(<<"?">>))

\* round(node.score, 3) if node.score else None
CitationScore(score) == IF score # 0 THEN Just(Round3(score)) ELSE Nothing

\* The dict appended to sources for one source node.
Citation(n) ==
    LET meta == ChunkMetadata(n.id)
    IN  [source       |-> MetaGet(meta, "source", "Unknown"),
         page         |-> CitationPage(meta),
         content_type |-> MetaGet(meta, "content_type", "text"),
         score        |-> CitationScore(n.score),
         text_preview |-> TextPreview(ChunkText(n.id))]

figure_keywords ==
    << <<"f", "i", "g", "u", "r", "e">>,
       <<"i", "m", "a", "g", "e">>,
       <<"d", "i", "a", "g", "r", "a", "m">>,
       <<"p", "l", "o", "t">>,
       <<"c", "h", "a", "r", "t">>,
       <<"g", "r", "a", "p", "h">>,
       <<"v", "i", "s", "u", "a", "l">>,
       <<"s", "h", "o", "w", " ", "m", "e">>,
       <<"p", "i", "c", "t", "u", "r", "e">> >>

\* Faulty variant of ShouldExtractImages: images are extracted for every message.
ShouldExtractImages_Always(message) == TRUE

\* any(keyword in message.lower() for keyword in figure_keywords)
ShouldExtractImages(message) ==
    LET lower == Lower(message)
    IN  \E k \in 1..Len(figure_keywords) : Contains(lower, figure_keywords[k])

\* current_page: int(page_label) if the key is there, else int(page_num) if
\* that key is there; Nothing when the key is absent or int() raised.
CurrentPage(meta) ==
    IF "page_label" \in DOMAIN meta THEN IntOrNone(meta["page_label"])
    ELSE IF "page_num" \in DOMAIN meta THEN IntOrNone(meta["page_num"])
    ELSE Nothing

\* Faulty variant of PagesToCheck: the following page is not looked at.
PagesToCheck_NoNextPage(current_page) ==
    <<StrOfInt(current_page), StrOfInt(current_page - 1)>>

\* [str(current_page), str(current_page - 1), str(current_page + 1)]
PagesToCheck(current_page) ==
    <<StrOfInt(current_page), StrOfInt(current_page - 1), StrOfInt(current_page + 1)>>

RECURSIVE ImagesOfPages(_, _)
\* for p in pages_to_check: if p in image_map: images.extend(image_map[p])
ImagesOfPages(image_map, pages) ==
    IF pages = <<>> THEN <<>>
    ELSE (IF Head(pages) \in DOMAIN image_map THEN image_map[Head(pages)] ELSE <<>>)
         \o ImagesOfPages(image_map, Tail(pages))

\* What one source node adds to images.
NodeImages(n, should_extract_images) ==
    LET meta == ChunkMetadata(n.id)
    IN  IF should_extract_images /\ "image_map" \in DOMAIN meta
        THEN LET current_page == CurrentPage(meta)
             IN  IF IsSet(current_page) /\ Val(current_page) # 0
                 THEN ImagesOfPages(JsonLoads(meta["image_map"]),
                                    PagesToCheck(Val(current_page)))
                 ELSE <<>>
        ELSE <<>>

\* Faulty variant of Deduplicate: every queued image is kept.
Deduplicate_KeepAll(images, unique_images) == unique_images \o images

RECURSIVE Deduplicate(_, _)
\* unique_images: each image kept where it first occurs
Deduplicate(images, unique_images) ==
    IF images = <<>> THEN unique_images
    ELSE Deduplicate(Tail(images),
                     IF \E i \in 1..Len(unique_images) : unique_images[i] = Head(images)
                     THEN unique_images
                     ELSE Append(unique_images, Head(images)))

\* The sources list of _extract_sources_and_images(response, message)
ExtractSources(source_nodes) ==
    [i \in 1..Len(source_nodes) |-> Citation(source_nodes[i])]

\* The image list of _extract_sources_and_images(response, message)
ExtractImages(source_nodes, message) ==
    LET should_extract_images == ShouldExtractImages(message)
    IN  Deduplicate(Concat([i \in 1..Len(source_nodes) |->
                               NodeImages(source_nodes[i], should_extract_images)]),
                    <<>>)

\* User messages.
MsgHi == <<"h", "i">>
MsgThanks == <<"t", "h", "a", "n", "k", "s">>
MsgThankYou == <<" ", "T", "h", "a", "n", "k", " ", "y", "o", "u", "!", " ", "\n">>
MsgOK == <<"O", "K", ".">>
MsgHiThere == <<"h", "i", " ", "t", "h", "e", "r", "e">>
MsgShowPlot == <<"S", "h", "o", "w", " ", "m", "e", " ", "t", "h", "e", " ", "P", "L", "O", "T">>
MsgVisual == <<"v", "i", "s", "u", "a", "l", " ", "s", "u", "m", "m", "a", "r", "y">>
MsgParagraph == <<"e", "x", "p", "l", "a", "i", "n", " ", "p", "a", "r", "a", "g", "r", "a", "p", "h", " ", "2">>
MsgEntropy == <<"W", "h", "a", "t", " ", "i", "s", " ", "e", "n", "t", "r", "o", "p", "y", "?">>

\* The messages _extract_sources_and_images is tried on.
ExtractMessages == {MsgHi, MsgShowPlot, MsgVisual, MsgParagraph, MsgEntropy}

\* The source_nodes a response can carry: the nearest chunks, ranked, as many
\* as the engine's retriever was asked for and the collection holds.
SourceNodeLists ==
    {Take(TopK(Chunks, scoring, SIMILARITY_TOP_K), k) :
        scoring \in [Chunks -> ResponseScores], k \in 0..SIMILARITY_TOP_K}

-----------------------------------------------------------------------------
(* render_images (app.py): the filter of the images shown with an answer.  *)

\* The image files on disk: whether the path exists, whether PIL opens it,
\* its size in pixels and its bytes.
ImageFile(path) ==
    CASE path = "icon.png"     -> [exists |-> TRUE,  opens |-> TRUE,  width |-> 100, height |-> 100, bytes |-> "icon"]
      [] path = "fig1.png"     -> [exists |-> TRUE,  opens |-> TRUE,  width |-> 300, height |-> 300, bytes |-> "fig1"]
      [] path = "fig1_copy.png" -> [exists |-> TRUE, opens |-> TRUE,  width |-> 300, height |-> 300, bytes |-> "fig1"]
      [] path = "min.png"      -> [exists |-> TRUE,  opens |-> TRUE,  width |-> 150, height |-> 150, bytes |-> "min"]
      [] path = "narrow.png"   -> [exists |-> TRUE,  opens |-> TRUE,  width |-> 149, height |-> 300, bytes |-> "narrow"]
      [] path = "wide5.png"    -> [exists |-> TRUE,  opens |-> TRUE,  width |-> 750, height |-> 150, bytes |-> "wide5"]
      [] path = "banner.png"   -> [exists |-> TRUE,  opens |-> TRUE,  width |-> 751, height |-> 150, bytes |-> "banner"]
      [] path = "tall5.png"    -> [exists |-> TRUE,  opens |-> TRUE,  width |-> 150, height |-> 750, bytes |-> "tall5"]
      [] path = "strip.png"    -> [exists |-> TRUE,  opens |-> TRUE,  width |-> 150, height |-> 751, bytes |-> "strip"]
      [] path = "corrupt.png"  -> [exists |-> TRUE,  opens |-> FALSE, width |-> 300, height |-> 300, bytes |-> "fig1"]
      [] OTHER                 -> [exists |-> FALSE, opens |-> FALSE, width |-> 300, height |-> 300, bytes |-> "fig1"]

ImagePaths == {"icon.png", "fig1.png", "fig1_copy.png", "min.png", "narrow.png",
               "wide5.png", "banner.png", "tall5.png", "strip.png", "corrupt.png",
               "missing.png"}

\* hashlib.md5(bytes).hexdigest(): equal for equal bytes, taken to differ for
\* different bytes.
Md5(bytes) == <<"md5", bytes>>

\* Faulty variant of TooSmall: an image is small only if both sides are.
TooSmall_BothSides(width, height) == width < 150 /\ height < 150

\* width < 150 or height < 150
TooSmall(width, height) == width < 150 \/ height < 150

\* aspect_ratio > 5 or aspect_ratio < 0.2, aspect_ratio being width / height.
\* For pixel sizes the float quotient compares with 5 and with 0.2 as the
\* exact quotient does: 750/150 is 5.0 and 150/750 is the double 0.2.
BadAspect(width, height) == width > 5 * height \/ 5 * width < height

\* One turn of the loop over images: whether img_path is accepted, given the
\* hashes seen so far.
Accepts(img_path, seen_hashes) ==
    LET f == ImageFile(img_path)
    IN  /\ f.exists
        /\ f.opens
        /\ ~TooSmall(f.width, f.height)
        /\ ~BadAspect(f.width, f.height)
        /\ Md5(f.bytes) \notin seen_hashes

RECURSIVE FilterImages(_, _, _)
\* The loop of render_images: valid_images after the images are gone through.
FilterImages(images, seen_hashes, valid) ==
    IF images = <<>> THEN valid
    ELSE IF Accepts(Head(images), seen_hashes)
         THEN FilterImages(Tail(images),
                           seen_hashes \cup {Md5(ImageFile(Head(images)).bytes)},
                           Append(valid, Head(images)))
         ELSE FilterImages(Tail(images), seen_hashes, valid)

\* render_images(images): the images it shows.
RenderImages(images) == FilterImages(images, {}, <<>>)

RECURSIVE SeqsUpTo(_, _)
\* The sequences over S of length at most n.
SeqsUpTo(S, n) ==
    IF n = 0 THEN {<<>>}
    ELSE LET shorter == SeqsUpTo(S, n - 1)
         IN  shorter \cup {Append(q, x) : q \in shorter, x \in S}

-----------------------------------------------------------------------------
(* ScientificChatEngine (src/chatbot/engine.py).                           *)

greetings ==
    << <<"h", "i">>,
       <<"h", "e", "l", "l", "o">>,
       <<"h", "e", "y">>,
       <<"g", "r", "e", "e", "t", "i", "n", "g", "s">>,
       <<"g", "o", "o", "d", " ", "m", "o", "r", "n", "i", "n", "g">>,
       <<"g", "o", "o", "d", " ", "a", "f", "t", "e", "r", "n", "o", "o", "n">>,
       <<"g", "o", "o", "d", " ", "e", "v", "e", "n", "i", "n", "g">>,
       <<"t", "h", "a", "n", "k", "s">>,
       <<"t", "h", "a", "n", "k", " ", "y", "o", "u">>,
       <<"o", "k">>,
       <<"o", "k", "a", "y">> >>

\* message.lower().strip().strip('?!. ')
CleanMsg(message) == Strip(Strip(Lower(message), Whitespace), {"?", "!", ".", " "})

\* clean_msg in greetings
IsGreeting(message) == \E k \in 1..Len(greetings) : greetings[k] = CleanMsg(message)

ReplyHello == <<"H", "e", "l", "l", "o", "!", " ", "H", "o", "w", " ", "c", "a", "n", " ", "I", " ", "h", "e", "l", "p", " ", "y", "o", "u", " ", "w", "i", "t", "h", " ", "y", "o", "u", "r", " ", "s", "c", "i", "e", "n", "t", "i", "f", "i", "c", " ", "p", "a", "p", "e", "r", "s", " ", "t", "o", "d", "a", "y", "?">>
ReplyWelcome == <<"Y", "o", "u", "'", "r", "e", " ", "w", "e", "l", "c", "o", "m", "e", "!", " ", "L", "e", "t", " ", "m", "e", " ", "k", "n", "o", "w", " ", "i", "f", " ", "y", "o", "u", " ", "h", "a", "v", "e", " ", "m", "o", "r", "e", " ", "q", "u", "e", "s", "t", "i", "o", "n", "s", " ", "a", "b", "o", "u", "t", " ", "t", "h", "e", " ", "p", "a", "p", "e", "r", "s", ".">>

\* reply: the thanks reply for "thanks" and "thank you", else the hello reply
GreetingReply(message) ==
    IF CleanMsg(message) \in {<<"t", "h", "a", "n", "k", "s">>,
                              <<"t", "h", "a", "n", "k", " ", "y", "o", "u">>}
    THEN ReplyWelcome
    ELSE ReplyHello

\* MockStreamingResponse(text): response_gen yields every word of
\* text.split(), each but the last followed by a space; no source nodes.
MockStreamingResponse(text) ==
    LET words == Split(text)
    IN  [kind         |-> "mock",
         response     |-> text,
         response_gen |-> [i \in 1..Len(words) |->
                             words[i] \o (IF i < Len(words) THEN <<" ">> ELSE <<>>)],
         source_nodes |-> <<>>]

\* What the generation provider streams for a question, in fragments.
AnswerFragments == << <<"P", "e", "r", " ">>, <<"t", "h", "e", " ">>, <<"p", "a", "p", "e", "r", ".">> >>

\* The response of CondensePlusContextChatEngine.stream_chat / chat: the
\* nodes its retriever found and the provider's answer.
EngineResponse(source_nodes) ==
    [kind         |-> "engine",
     response     |-> Concat(AnswerFragments),
     response_gen |-> AnswerFragments,
     source_nodes |-> source_nodes]

\* The two mock responses stream_chat can build.
MockResponses == [text \in {ReplyHello, ReplyWelcome} |-> MockStreamingResponse(text)]

\* Faulty variant of StreamChat: a greeting is answered by the chat engine
\* like any other message.
StreamChat_NoFastPath(message, source_nodes) == EngineResponse(source_nodes)

\* ScientificChatEngine.stream_chat(message), given what the engine's
\* retriever would find for the message.
StreamChat(message, source_nodes) ==
    IF IsGreeting(message)
    THEN MockResponses[GreetingReply(message)]
    ELSE EngineResponse(source_nodes)

\* ScientificChatEngine.chat(message): the chat engine answers every message.
Chat(message, source_nodes) == EngineResponse(source_nodes)

\* ChatMemoryBuffer after a turn answered by the chat engine: the user's
\* message and the assistant's answer are put.
MemoryPut(memory, message, response) ==
    memory \o << [role |-> "user", content |-> message],
                 [role |-> "assistant", content |-> response.response] >>

\* The collaborators' call counts after a turn: the chat engine retrieves
\* and generates once per message it is given; the mock response does neither.
CallsAfter(response) ==
    [turns      |-> calls.turns + 1,
     retrieval  |-> calls.retrieval + (IF response.kind = "engine" THEN 1 ELSE 0),
     generation |-> calls.generation + (IF response.kind = "engine" THEN 1 ELSE 0)]

\* ScientificChatEngine(index, similarity_top_k=...): empty memory, and a
\* chat engine over index.as_retriever(similarity_top_k).
NewEngine(similarity_top_k) ==
    [memory |-> <<>>, similarity_top_k |-> similarity_top_k]

\* ScientificChatEngine.reset(): the memory is cleared and the chat engine is
\* built again over index.as_retriever(similarity_top_k=SIMILARITY_TOP_K).
Reset(engine) ==
    [memory |-> <<>>, similarity_top_k |-> SIMILARITY_TOP_K]

\* ScientificChatEngine.get_chat_history()
GetChatHistory(engine) == engine.memory

\* The scorings of the stored chunks the questions of a chat get.
ChatScorings ==
    { [c \in Chunks |-> IF c % 2 = 0 THEN 9137 ELSE 4205],
      [c \in Chunks |-> IF c = 1 THEN 0 ELSE 4205] }

\* What the engine's retriever finds for a question: the similarity_top_k
\* nearest chunks.
FoundNodes(engine) ==
    {TopK(Chunks, scoring, engine.similarity_top_k) : scoring \in ChatScorings}

\* The messages a chat is tried on.
ChatMessages == {MsgHi, MsgThanks, MsgThankYou, MsgHiThere, MsgShowPlot, MsgEntropy}

Sessions == 1..NumSessions

\* st.session_state of a session whose script has not run yet: an empty dict
\* (a key that is absent is Nothing).
NewSessionState == [messages |-> Nothing, chat_engine |-> Nothing]

\* No collaborator has been invoked yet.
NoCalls == [turns |-> 0, retrieval |-> 0, generation |-> 0]

\* The app as started: nothing cached, no engine built, no session has run.
AppStarted ==
    /\ engine_cache = Nothing
    /\ engines = <<>>
    /\ session_state = [s \in Sessions |-> NewSessionState]
    /\ pc = [s \in Sessions |-> "new"]
    /\ response_gen = [s \in Sessions |-> Nothing]
    /\ full_response = [s \in Sessions |-> Nothing]
    /\ calls = NoCalls
    /\ eturn = Nothing

IdleApp == document_count = NumChunks /\ api_key = TRUE /\ AppStarted

\* retrieve(query, content_types) is called and returns.
RetrieveCall ==
    /\ IsSet(rq) /\ ~IsSet(retrieved)
    /\ retrieved' = Just(Retrieve(Val(rq).query, Val(rq).content_types))
    /\ UNCHANGED <<rq, context, extractVars, imageVars, ingestionVars, appVars>>

\* format_context_for_llm(nodes) is called on the retrieved list and returns.
FormatCall ==
    /\ IsSet(retrieved) /\ ~IsSet(context)
    /\ context' = Just(FormatContextForLlm(Val(retrieved)))
    /\ UNCHANGED <<rq, retrieved, extractVars, imageVars, ingestionVars, appVars>>

\* The retriever on its own: every query (scoring) and every content_types
\* argument, then retrieve(), then format_context_for_llm() on its result.
InitRetriever ==
    /\ rq \in {Just([query |-> q, content_types |-> ct]) : q \in Scorings, ct \in FilterArgs}
    /\ retrieved = Nothing
    /\ context = Nothing
    /\ IdleExtract /\ IdleImages /\ IdleIngestion /\ IdleApp

NextRetriever == RetrieveCall \/ FormatCall

SpecRetriever == InitRetriever /\ [][NextRetriever]_vars

\* _extract_sources_and_images(response, message) is called and returns.
ExtractCall ==
    /\ IsSet(xq) /\ ~IsSet(xsources)
    /\ xsources' = Just(ExtractSources(Val(xq).source_nodes))
    /\ ximages' = Just(ExtractImages(Val(xq).source_nodes, Val(xq).message))
    /\ UNCHANGED <<xq, retrieverVars, imageVars, ingestionVars, appVars>>

\* _extract_sources_and_images on its own: every response and message.
InitExtract ==
    /\ xq \in {Just([source_nodes |-> ns, message |-> m]) :
                    ns \in SourceNodeLists, m \in ExtractMessages}
    /\ xsources = Nothing
    /\ ximages = Nothing
    /\ IdleRetriever /\ IdleImages /\ IdleIngestion /\ IdleApp

NextExtract == ExtractCall

SpecExtract == InitExtract /\ [][NextExtract]_vars

\* render_images(images) is called and returns.
RenderCall ==
    /\ IsSet(candidates) /\ ~IsSet(valid_images)
    /\ valid_images' = Just(RenderImages(Val(candidates)))
    /\ UNCHANGED <<candidates, retrieverVars, extractVars, ingestionVars, appVars>>

\* render_images on its own: every list of up to MaxImages image paths.
InitImages ==
    /\ candidates \in {Just(l) : l \in SeqsUpTo(ImagePaths, MaxImages)}
    /\ valid_images = Nothing
    /\ IdleRetriever /\ IdleExtract /\ IdleIngestion /\ IdleApp

NextImages == RenderCall

SpecImages == InitImages /\ [][NextImages]_vars

-----------------------------------------------------------------------------
(* The Streamlit app (app.py): load_chat_engine, main, render_sidebar.     *)
(* Every session runs the script in a thread of its own; pc[s] is "new"    *)
(* before the session's first run, "idle" between runs, and "streaming",   *)
(* "drained" inside the run that answers a prompt.                         *)

\* Faulty variant of BuildChatEngine: the document count is not looked at.
BuildChatEngine_NoCountCheck ==
    IF ~api_key
    THEN [result |-> [engine |-> Nothing, error |-> TRUE], engines |-> engines]
    ELSE [result  |-> [engine |-> Just(Len(engines) + 1), error |-> FALSE],
          engines |-> Append(engines, NewEngine(SIMILARITY_TOP_K))]

\* The body of load_chat_engine(): (engine, error) and the engines built.
\* An empty collection gives an error; so does a missing GROQ_API_KEY, which
\* makes ScientificChatEngine() raise.
BuildChatEngine ==
    IF document_count = 0 \/ ~api_key
    THEN [result |-> [engine |-> Nothing, error |-> TRUE], engines |-> engines]
    ELSE [result  |-> [engine |-> Just(Len(engines) + 1), error |-> FALSE],
          engines |-> Append(engines, NewEngine(SIMILARITY_TOP_K))]

\* @st.cache_resource load_chat_engine(): the body runs on the first call of
\* the process; every later call, from any session, gets the cached result.
LoadChatEngine ==
    IF IsSet(engine_cache)
    THEN [result |-> Val(engine_cache), cache |-> engine_cache, engines |-> engines]
    ELSE [result  |-> BuildChatEngine.result,
          cache   |-> Just(BuildChatEngine.result),
          engines |-> BuildChatEngine.engines]

\* main() from load_chat_engine() to the initialisation of st.session_state:
\* the session's state after it, given the state before and the loaded result.
InitSessionState(state, loaded) ==
    IF loaded.error THEN state
    ELSE [messages    |-> IF IsSet(state.messages) THEN state.messages ELSE Just(<<>>),
          chat_engine |-> IF IsSet(state.chat_engine) THEN state.chat_engine
                                                      ELSE loaded.engine]

\* The prompts entered in the app's chat input.
Prompts == {MsgHi, MsgThankYou, MsgShowPlot, MsgEntropy}

\* A script run without input: the page is loaded or reloaded.
ScriptRun(s) ==
    /\ pc[s] \in {"new", "idle"}
    /\ LET load == LoadChatEngine
       IN  /\ engine_cache' = load.cache
           /\ engines' = load.engines
           /\ session_state' = [session_state EXCEPT
                                   ![s] = InitSessionState(@, load.result)]
    /\ pc' = [pc EXCEPT ![s] = "idle"]
    /\ UNCHANGED <<retrieverVars, extractVars, imageVars, ingestionVars, document_count, api_key,
                   response_gen, full_response, calls, eturn>>

\* The Clear Chat button: messages = [], the session's engine is reset, and
\* st.rerun() runs the script again.
ClearChat(s) ==
    /\ pc[s] = "idle"
    /\ LET cleared == [session_state[s] EXCEPT !.messages = Just(<<>>)]
           reset == IF IsSet(cleared.chat_engine)
                    THEN [engines EXCEPT ![Val(cleared.chat_engine)] = Reset(@)]
                    ELSE engines
           load == LoadChatEngine
       IN  /\ engine_cache' = load.cache
           /\ engines' = IF IsSet(engine_cache) THEN reset ELSE load.engines
           /\ session_state' = [session_state EXCEPT
                                   ![s] = InitSessionState(cleared, load.result)]
    /\ UNCHANGED <<retrieverVars, extractVars, imageVars, ingestionVars, document_count, api_key,
                   pc, response_gen, full_response, calls, eturn>>

\* A prompt is entered: the user message is appended and
\* st.session_state.chat_engine.stream_chat(prompt) returns the response.
Submit(s) ==
    /\ pc[s] = "idle"
    /\ IsSet(session_state[s].chat_engine)
    /\ calls.turns < MaxTurns
    /\ \E prompt \in Prompts,
          source_nodes \in FoundNodes(engines[Val(session_state[s].chat_engine)]) :
         LET response == StreamChat(prompt, source_nodes)
         IN  /\ session_state' = [session_state EXCEPT ![s].messages =
                    Just(Append(Val(@), [role |-> "user", content |-> prompt]))]
             /\ response_gen' = [response_gen EXCEPT ![s] =
                    Just([prompt |-> prompt, response |-> response])]
             /\ calls' = CallsAfter(response)
    /\ pc' = [pc EXCEPT ![s] = "streaming"]
    /\ UNCHANGED <<retrieverVars, extractVars, imageVars, ingestionVars, document_count, api_key,
                   engine_cache, engines, full_response, eturn>>

\* st.write_stream(response_gen.response_gen) drains the stream; when the
\* chat engine's stream ends, the turn is in the engine's memory.
WriteStream(s) ==
    /\ pc[s] = "streaming"
    /\ LET prompt == Val(response_gen[s]).prompt
           response == Val(response_gen[s]).response
           e == Val(session_state[s].chat_engine)
       IN  /\ full_response' = [full_response EXCEPT ![s] =
                  Just(Concat(response.response_gen))]
           /\ engines' = IF response.kind = "engine"
                          THEN [engines EXCEPT ![e].memory =
                                   MemoryPut(@, prompt, response)]
                          ELSE engines
    /\ pc' = [pc EXCEPT ![s] = "drained"]
    /\ UNCHANGED <<retrieverVars, extractVars, imageVars, ingestionVars, document_count, api_key,
                   engine_cache, session_state, response_gen, calls, eturn>>

\* Faulty variant of SaveToHistory: the sources are extracted and the turn
\* is saved without waiting for st.write_stream to return.
SaveToHistory_BeforeDrain(s) ==
    /\ pc[s] \in {"streaming", "drained"}
    /\ LET prompt == Val(response_gen[s]).prompt
           response == Val(response_gen[s]).response
       IN  session_state' = [session_state EXCEPT ![s].messages =
              Just(Append(Val(@),
                   [role    |-> "assistant",
                    content |-> IF IsSet(full_response[s])
                                THEN Val(full_response[s]) ELSE <<>>,
                    sources |-> ExtractSources(response.source_nodes),
                    images  |-> ExtractImages(response.source_nodes, prompt)]))]
    /\ response_gen' = [response_gen EXCEPT ![s] = Nothing]
    /\ full_response' = [full_response EXCEPT ![s] = Nothing]
    /\ pc' = [pc EXCEPT ![s] = "idle"]
    /\ UNCHANGED <<retrieverVars, extractVars, imageVars, ingestionVars, document_count, api_key,
                   engine_cache, engines, calls, eturn>>

\* The rest of the run: _extract_sources_and_images(response_gen, prompt),
\* the images and sources are rendered, the assistant message is appended.
SaveToHistory(s) ==
    /\ pc[s] = "drained"
    /\ LET prompt == Val(response_gen[s]).prompt
           response == Val(response_gen[s]).response
       IN  session_state' = [session_state EXCEPT ![s].messages =
              Just(Append(Val(@),
                   [role    |-> "assistant",
                    content |-> Val(full_response[s]),
                    sources |-> ExtractSources(response.source_nodes),
                    images  |-> ExtractImages(response.source_nodes, prompt)]))]
    /\ response_gen' = [response_gen EXCEPT ![s] = Nothing]
    /\ full_response' = [full_response EXCEPT ![s] = Nothing]
    /\ pc' = [pc EXCEPT ![s] = "idle"]
    /\ UNCHANGED <<retrieverVars, extractVars, imageVars, ingestionVars, document_count, api_key,
                   engine_cache, engines, calls, eturn>>

\* The app as deployed: the collection is empty or ingested, the key is set
\* or not.
Init ==
    /\ document_count \in {0, NumChunks}
    /\ api_key \in BOOLEAN
    /\ AppStarted
    /\ IdleRetriever /\ IdleExtract /\ IdleImages /\ IdleIngestion

Next ==
    \E s \in Sessions :
        \/ ScriptRun(s)
        \/ ClearChat(s)
        \/ Submit(s)
        \/ WriteStream(s)
        \/ SaveToHistory(s)

Spec == Init /\ [][Next]_vars

-----------------------------------------------------------------------------
(* One engine used through its own API.                                    *)

\* The record of a call of the engine's API: what was asked, what came back.
Turn(api, message, response) ==
    [api     |-> api,
     message |-> message,
     reply   |-> Concat(response.response_gen),
     sources |-> ExtractSources(response.source_nodes),
     images  |-> ExtractImages(response.source_nodes, message)]

\* engine.stream_chat(message); the caller drains response_gen and then
\* calls _extract_sources_and_images(response, message).
EngineStreamChat ==
    /\ calls.turns < MaxTurns
    /\ \E message \in ChatMessages, source_nodes \in FoundNodes(engines[1]) :
         LET response == StreamChat(message, source_nodes)
         IN  /\ eturn' = Just(Turn("stream_chat", message, response))
             /\ calls' = CallsAfter(response)
             /\ engines' = IF response.kind = "engine"
                            THEN [engines EXCEPT ![1].memory =
                                     MemoryPut(@, message, response)]
                            ELSE engines
    /\ UNCHANGED <<retrieverVars, extractVars, imageVars, ingestionVars, document_count, api_key,
                   engine_cache, session_state, pc, response_gen, full_response>>

\* engine.chat(message)
EngineChat ==
    /\ calls.turns < MaxTurns
    /\ \E message \in ChatMessages, source_nodes \in FoundNodes(engines[1]) :
         LET response == Chat(message, source_nodes)
         IN  /\ eturn' = Just(Turn("chat", message, response))
             /\ calls' = CallsAfter(response)
             /\ engines' = IF response.kind = "engine"
                            THEN [engines EXCEPT ![1].memory =
                                     MemoryPut(@, message, response)]
                            ELSE engines
    /\ UNCHANGED <<retrieverVars, extractVars, imageVars, ingestionVars, document_count, api_key,
                   engine_cache, session_state, pc, response_gen, full_response>>

\* engine.reset()
EngineReset ==
    /\ engines' = [engines EXCEPT ![1] = Reset(@)]
    /\ UNCHANGED <<retrieverVars, extractVars, imageVars, ingestionVars, document_count, api_key,
                   engine_cache, session_state, pc, response_gen, full_response,
                   calls, eturn>>

\* The similarity_top_k a ScientificChatEngine is constructed with.
ConstructorTopK == {2, SIMILARITY_TOP_K}

\* One ScientificChatEngine used through its API: constructed, then any
\* sequence of stream_chat, chat and reset.
InitEngine ==
    /\ engines \in {<<NewEngine(k)>> : k \in ConstructorTopK}
    /\ document_count = NumChunks /\ api_key = TRUE
    /\ engine_cache = Nothing
    /\ session_state = [s \in Sessions |-> NewSessionState]
    /\ pc = [s \in Sessions |-> "new"]
    /\ response_gen = [s \in Sessions |-> Nothing]
    /\ full_response = [s \in Sessions |-> Nothing]
    /\ calls = NoCalls
    /\ eturn = Nothing
    /\ IdleRetriever /\ IdleExtract /\ IdleImages /\ IdleIngestion

NextEngine == EngineStreamChat \/ EngineChat \/ EngineReset

SpecEngine == InitEngine /\ [][NextEngine]_vars

-----------------------------------------------------------------------------
(* The chunker's regular expressions (chunker.py 47-49), as Python's re    *)
(* matches them: the match that starts at a position is the first one the  *)
(* backtracking search finds.  Positions are 1-based; a match is given by  *)
(* the position of its last character, 0 when there is none.               *)

\* text[i], or "" when i is outside the string
CharAt(text, i) == IF i \in 1..Len(text) THEN text[i] ELSE ""

\* text[a-1:b] for 1 <= a: the characters a..b that exist
Slice(text, a, b) == SubSeq(text, a, Min(b, Len(text)))

RECURSIVE FindChar(_, _, _)
\* The first position at or after i whose character is in chars, Len(text) + 1
\* when there is none.
FindChar(text, i, chars) ==
    IF i > Len(text) THEN Len(text) + 1
    ELSE IF text[i] \in chars THEN i
    ELSE FindChar(text, i + 1, chars)

RECURSIVE SkipChars(_, _, _)
\* The first position at or after i whose character is not in chars.
SkipChars(text, i, chars) ==
    IF i > Len(text) THEN Len(text) + 1
    ELSE IF text[i] \notin chars THEN i
    ELSE SkipChars(text, i + 1, chars)

RECURSIVE LastChar(_, _, _, _)
\* The last position in lo..hi whose character is in chars, 0 when none.
LastChar(text, lo, hi, chars) ==
    IF hi < lo THEN 0
    ELSE IF text[hi] \in chars THEN hi
    ELSE LastChar(text, lo, hi - 1, chars)

Newline == {"\n"}
DigitChars == {Digits[k] : k \in 1..10}

\* \|[^\n]+\|\n at i: the line from i starts with a pipe, ends with a pipe
\* and has a character between them.  The position of its newline.
TableHeader(text, i) ==
    LET e == FindChar(text, i, Newline)
    IN  IF CharAt(text, i) = "|" /\ e <= Len(text) /\ e >= i + 3
           /\ text[e - 1] = "|"
        THEN e ELSE 0

RECURSIVE TableSeparator(_, _, _)
\* (?:\|[-:]+\|)+\n at i, n groups read so far.  The position of the newline.
TableSeparator(text, i, n) ==
    LET k == SkipChars(text, i + 1, {"-", ":"})
    IN  IF CharAt(text, i) = "|" /\ k > i + 1 /\ CharAt(text, k) = "|"
        THEN TableSeparator(text, k + 1, n + 1)
        ELSE IF n > 0 /\ CharAt(text, i) = "\n" THEN i ELSE 0

RECURSIVE TableRows(_, _, _)
\* (?:\|[^\n]+\|\n?)+ at i, the rows read so far ending at end (0: none yet).
\* A row runs from a pipe to the last pipe of its line, and takes the newline
\* when the line ends there.
TableRows(text, i, end) ==
    LET eol == FindChar(text, i, Newline)
        p == LastChar(text, i + 2, eol - 1, {"|"})
    IN  IF CharAt(text, i) = "|" /\ p # 0
        THEN IF CharAt(text, p + 1) = "\n"
             THEN TableRows(text, p + 2, p + 1)
             ELSE p
        ELSE end

\* table_pattern: \|[^\n]+\|\n(?:\|[-:]+\|)+\n(?:\|[^\n]+\|\n?)+
TablePattern(text, i) ==
    LET h == TableHeader(text, i)
        s == IF h = 0 THEN 0 ELSE TableSeparator(text, h + 1, 0)
    IN  IF s = 0 THEN 0 ELSE TableRows(text, s + 1, 0)

\* \$\$[^$]+\$\$
BlockEquationPattern(text, i) ==
    LET j == FindChar(text, i + 2, {"$"})
    IN  IF CharAt(text, i) = "$" /\ CharAt(text, i + 1) = "$"
           /\ j > i + 2 /\ CharAt(text, j) = "$" /\ CharAt(text, j + 1) = "$"
        THEN j + 1 ELSE 0

\* \$[^$]+\$
InlineEquationPattern(text, i) ==
    LET j == FindChar(text, i + 1, {"$"})
    IN  IF CharAt(text, i) = "$" /\ j > i + 1 /\ CharAt(text, j) = "$"
        THEN j ELSE 0

\* equation_pattern: \$\$[^$]+\$\$|\$[^$]+\$
EquationPattern(text, i) ==
    IF BlockEquationPattern(text, i) # 0
    THEN BlockEquationPattern(text, i)
    ELSE InlineEquationPattern(text, i)

\* figure_pattern: (?:Figure|Fig\.?)\s+\d+[.:][^\n]+(?:\n[^\n]+)?, IGNORECASE
FigurePattern(text, i) ==
    LET a == IF Lower(Slice(text, i, i + 5)) = <<"f", "i", "g", "u", "r", "e">> THEN i + 6
             ELSE IF Lower(Slice(text, i, i + 2)) = <<"f", "i", "g">>
                  THEN (IF CharAt(text, i + 3) = "." THEN i + 4 ELSE i + 3)
                  ELSE 0
        b == SkipChars(text, a, Whitespace)
        c == SkipChars(text, b, DigitChars)
        d == FindChar(text, c + 1, Newline)
        e == FindChar(text, d + 1, Newline)
    IN  IF a # 0 /\ b > a /\ c > b /\ CharAt(text, c) \in {".", ":"} /\ d > c + 1
        THEN (IF d <= Len(text) /\ e > d + 1 THEN e - 1 ELSE d - 1)
        ELSE 0

\* The match of a pattern that starts at i.
PatternMatch(pattern, text, i) ==
    CASE pattern = "table"          -> TablePattern(text, i)
      [] pattern = "equation"       -> EquationPattern(text, i)
      [] pattern = "block_equation" -> BlockEquationPattern(text, i)
      [] pattern = "figure"         -> FigurePattern(text, i)

RECURSIVE FindIter(_, _, _)
\* pattern.finditer(text) from position pos on: the non-overlapping matches
\* from left to right, each as [start, end] (both inclusive).
FindIter(pattern, text, pos) ==
    IF pos > Len(text) THEN <<>>
    ELSE LET e == PatternMatch(pattern, text, pos)
         IN  IF e = 0 THEN FindIter(pattern, text, pos + 1)
             ELSE <<[start |-> pos, end |-> e]>> \o FindIter(pattern, text, e + 1)

RECURSIVE ReSub(_, _, _, _)
\* pattern.sub(repl, text) from position pos on
ReSub(pattern, repl, text, pos) ==
    IF pos > Len(text) THEN <<>>
    ELSE LET e == PatternMatch(pattern, text, pos)
         IN  IF e = 0 THEN <<text[pos]>> \o ReSub(pattern, repl, text, pos + 1)
             ELSE repl \o ReSub(pattern, repl, text, e + 1)

-----------------------------------------------------------------------------
(* ScientificChunker (chunker.py).  A Document and a TextNode are records  *)
(* [text, metadata]; a metadata dict is a function from its keys.          *)

Max(a, b) == IF a >= b THEN a ELSE b

\* text[a:b] for b >= 0, with Python's reading of a negative a
PySlice(text, a, b) ==
    LET lo == IF a < 0 THEN Max(Len(text) + a, 0) ELSE Min(a, Len(text))
    IN  SubSeq(text, lo + 1, Min(b, Len(text)))

\* text.rfind('\n', 0, hi): the 0-based index of the last newline among the
\* first hi characters, -1 when there is none
RFindNewline(text, hi) == LastChar(text, 1, Min(hi, Len(text)), Newline) - 1

\* {**metadata, key: value}
DictSet(metadata, key, value) ==
    [k \in DOMAIN metadata \cup {key} |-> IF k = key THEN value ELSE metadata[k]]

TextNode(text, metadata) == [text |-> text, metadata |-> metadata]

\* How far before a table the search for its context's line break starts.
TableLookBack == 200
\* The length the metadata's context field is cut to.
ContextLimit == 200
\* The characters of context taken on each side of an equation.
EquationWindow == 150

TableMarker == <<"T", "A", "B", "L", "E", ":", "\n">>
EquationMarker == <<"E", "Q", "U", "A", "T", "I", "O", "N", ":", "\n">>
FigureMarker == <<"F", "I", "G", "U", "R", "E", ":", " ">>

\* Faulty variant of TableNode: the document's metadata is not carried over.
TableNode_NoBase(text, match, base_metadata) ==
    TextNode(TableMarker \o <<"\n", "\n">> \o SubSeq(text, match.start, match.end),
             [k \in {"content_type"} |-> "table"])

\* The node _extract_tables builds for one match.
TableNode(text, match, base_metadata) ==
    LET table_text == SubSeq(text, match.start, match.end)
        start == match.start - 1
        context_start == RFindNewline(text, Max(0, start - TableLookBack))
        table_context == Strip(PySlice(text, context_start, start), Whitespace)
    IN  TextNode(TableMarker \o table_context \o <<"\n", "\n">> \o table_text,
                 DictSet(DictSet(base_metadata, "content_type", "table"),
                         "context", Take(table_context, ContextLimit)))

\* _extract_tables(text, base_metadata)
ExtractTables(text, base_metadata) ==
    LET matches == FindIter("table", text, 1)
    IN  [k \in 1..Len(matches) |-> TableNode(text, matches[k], base_metadata)]

\* The node _extract_equations builds for one match.
EquationNode(text, match, base_metadata) ==
    LET equation == SubSeq(text, match.start, match.end)
        start == Max(0, (match.start - 1) - EquationWindow)
        end == Min(Len(text), match.end + EquationWindow)
        context_before == PySlice(text, start, match.start - 1)
        context_after == PySlice(text, match.end, end)
    IN  TextNode(EquationMarker \o Strip(context_before, Whitespace) \o <<"\n">>
                    \o equation \o <<"\n">> \o Strip(context_after, Whitespace),
                 DictSet(DictSet(base_metadata, "content_type", "equation"),
                         "latex", equation))

\* _extract_equations(text, base_metadata)
ExtractEquations(text, base_metadata) ==
    LET matches == FindIter("equation", text, 1)
    IN  [k \in 1..Len(matches) |-> EquationNode(text, matches[k], base_metadata)]

\* The node _extract_figures builds for one match.
FigureNode(text, match, base_metadata) ==
    LET figure_text == SubSeq(text, match.start, match.end)
    IN  TextNode(FigureMarker \o figure_text,
                 DictSet(DictSet(base_metadata, "content_type", "figure"),
                         "caption", figure_text))

\* _extract_figures(text, base_metadata)
ExtractFigures(text, base_metadata) ==
    LET matches == FindIter("figure", text, 1)
    IN  [k \in 1..Len(matches) |-> FigureNode(text, matches[k], base_metadata)]

TableRemoved == <<"[", "T", "A", "B", "L", "E", " ", "R", "E", "M", "O", "V", "E", "D",
      "]">>
EquationRemoved == <<"[", "E", "Q", "U", "A", "T", "I", "O", "N", " ", "R", "E", "M", "O",
      "V", "E", "D", "]">>
FigureRemoved == <<"[", "F", "I", "G", "U", "R", "E", " ", "R", "E", "M", "O", "V", "E",
      "D", "]">>

\* Faulty variant of RemoveSpecialContent: figure captions are left in.
RemoveSpecialContent_KeepFigures(text) ==
    ReSub("block_equation", EquationRemoved, ReSub("table", TableRemoved, text, 1), 1)

\* _remove_special_content(text): the tables, then the block equations, then
\* the figure captions of what is left are replaced by placeholders.
RemoveSpecialContent(text) ==
    LET no_tables == ReSub("table", TableRemoved, text, 1)
        no_equations == ReSub("block_equation", EquationRemoved, no_tables, 1)
    IN  ReSub("figure", FigureRemoved, no_equations, 1)

\* self.text_splitter.get_nodes_from_documents([text_doc]): every page text
\* of this model is far shorter than chunk_size tokens, so the splitter
\* returns one node, holding the stripped text and a copy of the metadata.
TextSplitterNodes(text_doc) ==
    <<TextNode(Strip(text_doc.text, Whitespace), text_doc.metadata)>>

\* The text nodes of _chunk_single_document: none when the cleaned text is
\* blank, else the splitter's nodes tagged as text.
TextNodes(clean_text, metadata) ==
    IF Strip(clean_text, Whitespace) = <<>> THEN <<>>
    ELSE LET text_nodes == TextSplitterNodes(TextNode(clean_text, metadata))
         IN  [k \in 1..Len(text_nodes) |->
                 TextNode(text_nodes[k].text,
                          DictSet(text_nodes[k].metadata, "content_type", "text"))]

\* Faulty variant of ChunkSingleDocument: the text nodes come first.
ChunkSingleDocument_TextFirst(doc) ==
    TextNodes(RemoveSpecialContent(doc.text), doc.metadata)
        \o ExtractTables(doc.text, doc.metadata)
        \o ExtractEquations(doc.text, doc.metadata)
        \o ExtractFigures(doc.text, doc.metadata)

\* _chunk_single_document(doc)
ChunkSingleDocument(doc) ==
    ExtractTables(doc.text, doc.metadata)
        \o ExtractEquations(doc.text, doc.metadata)
        \o ExtractFigures(doc.text, doc.metadata)
        \o TextNodes(RemoveSpecialContent(doc.text), doc.metadata)

RECURSIVE ChunkDocuments(_)
\* chunk_documents(documents)
ChunkDocuments(documents) ==
    IF documents = <<>> THEN <<>>
    ELSE ChunkSingleDocument(Head(documents)) \o ChunkDocuments(Tail(documents))

-----------------------------------------------------------------------------
(* The documents the parsers hand to the chunker.                          *)

PdfStems == {"paper_a", "paper_b", "paper_c"}

\* pdf_path.name
PdfName(stem) ==
    CASE stem = "paper_a" -> "paper_a.pdf"
      [] stem = "paper_b" -> "paper_b.pdf"
      [] OTHER            -> "paper_c.pdf"

\* str(pdf_path)
PdfPath(stem) ==
    CASE stem = "paper_a" -> "data/paper_a.pdf"
      [] stem = "paper_b" -> "data/paper_b.pdf"
      [] OTHER            -> "data/paper_c.pdf"

\* doc.metadata.update({...}) of PDFParser.parse_single_pdf for document i
\* (counted from 1) of a file whose images are image_map.
PdfParserMetadata(stem, i, image_map) ==
    [k \in {"source", "file_path", "doc_id", "page_label", "page_num", "image_map"} |->
        CASE k = "source"     -> PdfName(stem)
          [] k = "file_path"  -> PdfPath(stem)
          [] k = "doc_id"     -> stem
          [] k = "page_label" -> PyStr(StrOfInt(i))
          [] k = "page_num"   -> PyStr(StrOfInt(i))
          [] OTHER            -> JsonDumps(image_map)]

\* The metadata PyMuPDFParser.parse_single_pdf gives the page numbered page.
PyMuPdfMetadata(stem, page) ==
    [k \in {"source", "page_num", "doc_id"} |->
        CASE k = "source"   -> PdfName(stem)
          [] k = "page_num" -> PyInt(page)
          [] OTHER          -> stem]

Document(text, metadata) == [text |-> text, metadata |-> metadata]

\* What a page's text is made of in this model: a page is up to MaxPieces of
\* these, one after the other.
Sentence == <<"C", "o", "s", "t", "s", " ", "r", "o", "s", "e", ".", "\n">>
OneColumnTable == <<"|", "a", "|", "\n", "|", "-", "|", "\n", "|", "1", "|", "\n">>
LooseTable == <<"R", "e", "v", "e", "n", "u", "e", " ", "|", " ", "C", "o", "s", "t",
      "\n", "-", "-", "-", "|", "-", "-", "-", "\n", "1", "0", "0", " ",
      "|", " ", "5", "0", "\n">>
BlockEquation == <<"$", "$", "E", "$", "$">>
InlineEquation == <<"$", "x", "$">>
FigureCaption == <<"F", "i", "g", ".", " ", "1", ":", " ", "P", "l", "o", "t", "\n">>
Blank == <<" ">>

Pieces == <<Sentence, OneColumnTable, LooseTable, BlockEquation, InlineEquation,
            FigureCaption, Blank>>

\* Documents in one chunk_documents() call.
MaxDocs == 2
\* Pieces of text in all the documents of one call together.
MaxPieces == 2

RECURSIVE SumSeq(_)
SumSeq(s) == IF s = <<>> THEN 0 ELSE Head(s) + SumSeq(Tail(s))

\* The ways of dealing n pieces, in order, to 1..MaxDocs documents.
Deals(n) ==
    {sizes \in UNION {[1..k -> 0..n] : k \in 1..MaxDocs} : SumSeq(sizes) = n}

\* The text of document j when the pieces are dealt by sizes.
DealtText(pieces, sizes, j) ==
    LET before == SumSeq(SubSeq(sizes, 1, j - 1))
    IN  Concat([p \in 1..sizes[j] |-> Pieces[pieces[before + p]]])

\* The document list: document j is page j of paper_a.pdf as PDFParser
\* returns it.
DealtDocuments(pieces, sizes) ==
    [j \in 1..Len(sizes) |->
        Document(DealtText(pieces, sizes, j),
                 PdfParserMetadata("paper_a", j, ImageMapOf("paper_a")))]

\* chunk_documents(documents) is called and returns; residual is the
\* clean_text each _chunk_single_document call computed on the way.
ChunkCall ==
    /\ IsSet(docs) /\ ~IsSet(all_nodes)
    /\ all_nodes' = Just(ChunkDocuments(Val(docs)))
    /\ residual' = Just([j \in 1..Len(Val(docs)) |->
                            RemoveSpecialContent(Val(docs)[j].text)])
    /\ UNCHANGED <<docs, retrieverVars, extractVars, imageVars, storeVars, appVars>>

\* chunk_documents on its own: every document list within the bounds.
InitChunker ==
    /\ \E pieces \in SeqsUpTo(1..Len(Pieces), MaxPieces) :
          \E sizes \in Deals(Len(pieces)) :
             docs = Just(DealtDocuments(pieces, sizes))
    /\ all_nodes = Nothing
    /\ residual = Nothing
    /\ IdleStore /\ IdleRetriever /\ IdleExtract /\ IdleImages /\ IdleApp

NextChunker == ChunkCall

SpecChunker == InitChunker /\ [][NextChunker]_vars

-----------------------------------------------------------------------------
(* The PDF parsers (pdf_parser.py).  A PDF file of the data directory is   *)
(* [stem, pages, readable]: its name, the text of each of its pages, and   *)
(* whether parsing it succeeds (it raises otherwise).                      *)

GoodPdf == [stem |-> "paper_a", pages |-> <<Blank, Sentence \o OneColumnTable>>,
            readable |-> TRUE]
UnreadablePdf == [stem |-> "paper_c", pages |-> <<Sentence>>, readable |-> FALSE]
BlankPdf == [stem |-> "paper_b", pages |-> <<Blank>>, readable |-> TRUE]

PdfFiles == {GoodPdf, UnreadablePdf, BlankPdf}

\* PDF files in the data directory.
MaxFiles == 2

\* list(pdf_dir.glob("*.pdf")): up to MaxFiles files, no file twice.
PdfDirs ==
    {dir \in SeqsUpTo(PdfFiles, MaxFiles) :
        \A a, b \in 1..Len(dir) : a # b => dir[a].stem # dir[b].stem}

Parsers == {"PDFParser", "PyMuPDFParser"}

RECURSIVE PyMuPdfPages(_, _)
\* The loop of PyMuPDFParser.parse_single_pdf from page number page on: a
\* page whose text is blank gives no document.
PyMuPdfPages(file, page) ==
    IF page > Len(file.pages) THEN <<>>
    ELSE (IF Strip(file.pages[page], Whitespace) = <<>> THEN <<>>
          ELSE <<Document(file.pages[page], PyMuPdfMetadata(file.stem, page))>>)
         \o PyMuPdfPages(file, page + 1)

\* parser.parse_single_pdf(pdf_path): the exception of a file that cannot be
\* parsed is caught and [] returned.
ParseSinglePdf(parser, file) ==
    IF ~file.readable THEN <<>>
    ELSE IF parser = "PDFParser"
         THEN [i \in 1..Len(file.pages) |->
                  Document(file.pages[i],
                           PdfParserMetadata(file.stem, i, ImageMapOf(file.stem)))]
         ELSE PyMuPdfPages(file, 1)

RECURSIVE ParseAllPdfs_StopAtFailure(_, _)
\* Faulty variant of ParseAllPdfs: the batch ends at the first file that
\* cannot be parsed.
ParseAllPdfs_StopAtFailure(parser, files) ==
    IF files = <<>> \/ ~Head(files).readable THEN <<>>
    ELSE ParseSinglePdf(parser, Head(files))
            \o ParseAllPdfs_StopAtFailure(parser, Tail(files))

RECURSIVE ParseAllPdfs(_, _)
\* parser.parse_all_pdfs(pdf_dir)
ParseAllPdfs(parser, files) ==
    IF files = <<>> THEN <<>>
    ELSE ParseSinglePdf(parser, Head(files)) \o ParseAllPdfs(parser, Tail(files))

-----------------------------------------------------------------------------
(* The ingestion script (scripts/ingest.py) and the vector store            *)
(* (vector_store.py).  The script and the readers of the collection (the    *)
(* managers the application constructs) are separate processes over one     *)
(* persistent Chroma directory, so their steps interleave.                  *)

\* Runs of the ingestion script.
MaxRuns == 2

\* Managers other than the ingestion script's.
NumReaders == 1

Readers == 1..NumReaders

\* The collection named COLLECTION_NAME in the Chroma directory: whether it
\* exists, the identity of its current incarnation, how many incarnations
\* were created so far, and the stored chunks (run, position in nodes).
Collection(exists, id, created, items) ==
    [exists |-> exists, id |-> id, created |-> created, items |-> items]

\* chroma_client.get_or_create_collection(name=...)
GetOrCreateCollection(c) ==
    IF c.exists THEN c ELSE Collection(TRUE, c.created + 1, c.created + 1, {})

\* chroma_client.delete_collection(name)
DeleteCollection(c) == Collection(FALSE, c.id, c.created, {})

\* chroma_client.create_collection(name=...), for a name not in use
CreateCollection(c) == Collection(TRUE, c.created + 1, c.created + 1, {})

\* The script between two runs.
IngestIdle(run) ==
    [pc |-> "idle", run |-> run, llama_parse |-> FALSE, documents |-> <<>>,
     nodes |-> <<>>, embedded_nodes |-> <<>>]

IngestAt(pc_, fields) == [fields EXCEPT !.pc = pc_]

\* python scripts/ingest.py: a run starts over some data directory, with or
\* without a usable LlamaParse key.
IngestStart ==
    /\ IsSet(ingest)
    /\ Val(ingest).pc \in {"idle", "done", "exit1", "crashed"}
    /\ Val(ingest).run < MaxRuns
    /\ \E dir \in PdfDirs : \E key \in BOOLEAN :
          /\ pdf_files' = Just(dir)
          /\ ingest' = Just([IngestIdle(Val(ingest).run + 1) EXCEPT
                                !.pc = "start", !.llama_parse = key])
    /\ UNCHANGED <<collection, reader, chunkerVars, retrieverVars, extractVars,
                   imageVars, appVars>>

\* Step 1: parse with PDFParser, or with PyMuPDFParser when constructing
\* PDFParser raises; exit with status 1 when no document was extracted.
IngestParse ==
    /\ IsSet(ingest) /\ Val(ingest).pc = "start"
    /\ LET parser == IF Val(ingest).llama_parse THEN "PDFParser"
                     ELSE "PyMuPDFParser"
           documents == ParseAllPdfs(parser, Val(pdf_files))
       IN  ingest' = Just([Val(ingest) EXCEPT
                              !.documents = documents,
                              !.pc = IF documents = <<>> THEN "exit1"
                                     ELSE "parsed"])
    /\ UNCHANGED <<pdf_files, collection, reader, chunkerVars, retrieverVars,
                   extractVars, imageVars, appVars>>

\* Step 2: chunk the documents.
IngestChunk ==
    /\ IsSet(ingest) /\ Val(ingest).pc = "parsed"
    /\ ingest' = Just([Val(ingest) EXCEPT
                          !.nodes = ChunkDocuments(Val(ingest).documents),
                          !.pc = "chunked"])
    /\ UNCHANGED <<pdf_files, collection, reader, chunkerVars, retrieverVars,
                   extractVars, imageVars, appVars>>

\* embedder.embed_nodes(nodes): every node gets its embedding; texts are
\* what the model keeps of a node.
EmbedNodes(nodes) == nodes

\* Step 3: embed the chunks.
IngestEmbed ==
    /\ IsSet(ingest) /\ Val(ingest).pc = "chunked"
    /\ ingest' = Just([Val(ingest) EXCEPT
                          !.embedded_nodes = EmbedNodes(Val(ingest).nodes),
                          !.pc = "embedded"])
    /\ UNCHANGED <<pdf_files, collection, reader, chunkerVars, retrieverVars,
                   extractVars, imageVars, appVars>>

\* Faulty variant of IngestDelete: the collection is not reset before the
\* chunks are added.
IngestDelete_NoReset ==
    /\ IsSet(ingest) /\ Val(ingest).pc = "embedded"
    /\ collection' = Just(GetOrCreateCollection(Val(collection)))
    /\ ingest' = Just(IngestAt("reset", Val(ingest)))
    /\ UNCHANGED <<pdf_files, reader, chunkerVars, retrieverVars, extractVars,
                   imageVars, appVars>>

\* Step 4, first half: VectorStoreManager() and the delete_collection call
\* of reset_collection.
IngestDelete ==
    /\ IsSet(ingest) /\ Val(ingest).pc = "embedded"
    /\ collection' = Just(DeleteCollection(GetOrCreateCollection(Val(collection))))
    /\ ingest' = Just(IngestAt("deleted", Val(ingest)))
    /\ UNCHANGED <<pdf_files, reader, chunkerVars, retrieverVars, extractVars,
                   imageVars, appVars>>

\* Step 4, second half of reset_collection: create_collection raises when a
\* collection of that name exists again, which ends the run.
IngestCreate ==
    /\ IsSet(ingest) /\ Val(ingest).pc = "deleted"
    /\ IF Val(collection).exists
       THEN /\ ingest' = Just(IngestAt("crashed", Val(ingest)))
            /\ UNCHANGED collection
       ELSE /\ ingest' = Just(IngestAt("reset", Val(ingest)))
            /\ collection' = Just(CreateCollection(Val(collection)))
    /\ UNCHANGED <<pdf_files, reader, chunkerVars, retrieverVars, extractVars,
                   imageVars, appVars>>

\* The chunks of a run as stored items.
StoredItems(run, nodes) == {<<run, k>> : k \in 1..Len(nodes)}

\* Step 4, end: store.add_nodes(embedded_nodes) and the statistics printout.
IngestAdd ==
    /\ IsSet(ingest) /\ Val(ingest).pc = "reset"
    /\ collection' = Just([Val(collection) EXCEPT
                              !.items = @ \cup StoredItems(Val(ingest).run,
                                                 Val(ingest).embedded_nodes)])
    /\ ingest' = Just(IngestAt("done", Val(ingest)))
    /\ UNCHANGED <<pdf_files, reader, chunkerVars, retrieverVars, extractVars,
                   imageVars, appVars>>

\* What a manager holds and last saw: the incarnation its self.collection
\* refers to, and the outcome of its last get_collection_stats.
NoManager == [handle |-> Nothing, stats |-> Nothing]
Stats(found, count) == [found |-> found, document_count |-> count]

\* VectorStoreManager() in another process.
ReaderOpen(r) ==
    /\ IsSet(reader) /\ IsSet(collection)
    /\ collection' = Just(GetOrCreateCollection(Val(collection)))
    /\ reader' = Just([Val(reader) EXCEPT
                          ![r].handle = Just(GetOrCreateCollection(Val(collection)).id)])
    /\ UNCHANGED <<pdf_files, ingest, chunkerVars, retrieverVars, extractVars,
                   imageVars, appVars>>

\* The outcomes of self.collection.count() on a handle: the count of the
\* incarnation the handle refers to; an error when no collection of that
\* name exists; and, for the handle of an earlier incarnation, an error or
\* the count of the current one, depending on whether the client resolves
\* the handle by identity or by name.
CountOutcomes(c, handle) ==
    IF ~c.exists THEN {Stats(FALSE, 0)}
    ELSE IF c.id = handle THEN {Stats(TRUE, Cardinality(c.items))}
    ELSE {Stats(FALSE, 0), Stats(TRUE, Cardinality(c.items))}

\* manager.get_collection_stats() in another process.
ReaderStats(r) ==
    /\ IsSet(reader) /\ IsSet(collection)
    /\ IsSet(Val(reader)[r].handle)
    /\ \E outcome \in CountOutcomes(Val(collection), Val(Val(reader)[r].handle)) :
          reader' = Just([Val(reader) EXCEPT ![r].stats = Just(outcome)])
    /\ UNCHANGED <<pdf_files, ingest, collection, chunkerVars, retrieverVars,
                   extractVars, imageVars, appVars>>

\* The ingestion script and the readers of its collection: the collection
\* holds the one chunk an earlier ingestion (run 0) left, the script is not
\* yet run, no manager is constructed.
InitIngest ==
    /\ pdf_files = Just(<<>>)
    /\ ingest = Just(IngestIdle(0))
    /\ collection = Just(Collection(TRUE, 1, 1, StoredItems(0, <<Sentence>>)))
    /\ reader = Just([r \in Readers |-> NoManager])
    /\ IdleChunker /\ IdleRetriever /\ IdleExtract /\ IdleImages /\ IdleApp

NextIngest ==
    \/ IngestStart
    \/ IngestParse
    \/ IngestChunk
    \/ IngestEmbed
    \/ IngestDelete
    \/ IngestCreate
    \/ IngestAdd
    \/ \E r \in Readers : ReaderOpen(r) \/ ReaderStats(r)

SpecIngest == InitIngest /\ [][NextIngest]_vars

-----------------------------------------------------------------------------
(* Claims about ScientificRetriever.                                       *)

\* The candidates of the last query that pass the cutoff, whatever their type.
PassingCandidates ==
    {c \in Chunks : Val(rq).query[c] >= SimilarityCutoff}

\* C1: the list retrieve() returns is sorted by non-increasing similarity
\* score and holds at most rerank_top_n results, for every query and every
\* content_types argument.
C1_SortedAndCapped ==
    IsSet(retrieved) =>
        /\ Len(Val(retrieved)) <= RERANK_TOP_N
        /\ \A i, j \in 1..Len(Val(retrieved)) :
              i < j => Val(retrieved)[i].score >= Val(retrieved)[j].score

\* C1 witness: a filtered query returned a full list whose scores differ,
\* and more candidates than rerank_top_n passed the cutoff.
C1_Witness ==
    /\ IsSet(retrieved)
    /\ Len(Val(retrieved)) = RERANK_TOP_N
    /\ Val(retrieved)[1].score > Val(retrieved)[RERANK_TOP_N].score
    /\ IsSet(Val(rq).content_types)
    /\ Cardinality(PassingCandidates) > RERANK_TOP_N

\* C2: retrieve() returns no result whose score is below the cutoff 0.5, and
\* a query whose best candidate scores 0.42 gets the empty list.
C2_CutoffApplied ==
    IsSet(retrieved) =>
        /\ \A i \in 1..Len(Val(retrieved)) : Val(retrieved)[i].score >= 5000
        /\ (\A c \in Chunks : Val(rq).query[c] <= 4200) => Val(retrieved) = <<>>

\* C2 witness: the best candidate scored 0.42 and retrieve() returned [].
C2_Witness ==
    /\ IsSet(retrieved)
    /\ \E c \in Chunks : Val(rq).query[c] = 4200
    /\ \A c \in Chunks : Val(rq).query[c] <= 4200
    /\ Val(retrieved) = <<>>

\* C3 as stated: whenever a content_types argument is supplied (any list,
\* the empty one included), every returned result's content type is in it.
C3_AnySuppliedSet ==
    (IsSet(retrieved) /\ IsSet(Val(rq).content_types)) =>
        \A i \in 1..Len(Val(retrieved)) :
            ChunkType(Val(retrieved)[i].id) \in Val(Val(rq).content_types)

\* C3 (amended): whenever a non-empty content_types list is supplied, every
\* returned result's content type is in it.
C3_NonEmptyFilter ==
    (IsSet(retrieved) /\ IsSet(Val(rq).content_types)
                      /\ Val(Val(rq).content_types) # {}) =>
        \A i \in 1..Len(Val(retrieved)) :
            ChunkType(Val(retrieved)[i].id) \in Val(Val(rq).content_types)

\* C3 witness: a non-empty filter was applied, something was returned, and a
\* candidate of another type that passed the cutoff was dropped.
C3_Witness ==
    /\ IsSet(retrieved)
    /\ IsSet(Val(rq).content_types)
    /\ Val(Val(rq).content_types) # {}
    /\ Val(retrieved) # <<>>
    /\ \E c \in PassingCandidates :
          /\ ChunkType(c) \notin Val(Val(rq).content_types)
          /\ \A i \in 1..Len(Val(retrieved)) : Val(retrieved)[i].id # c

\* C10: format_context_for_llm renders one block of 12 pieces per result
\* (the 13th being the separator to the next block), in input order
\* and numbered from 1, each with the source file name, the page number, the
\* content type and the chunk's raw text, the blocks joined by the separator;
\* the empty list gives the empty string.
C10_ContextBlocks ==
    IsSet(context) =>
        LET nodes == Val(retrieved)
            ctx == Val(context)
            n == Len(nodes)
        IN  /\ (n = 0 => ctx = <<>>)
            /\ (n > 0 => Len(ctx) = n * 12 + (n - 1))
            /\ \A i \in 1..n :
                  LET o == (i - 1) * 13
                      meta == ChunkMetadata(nodes[i].id)
                  IN  /\ ctx[o + 2] = StrOfInt(i)
                      /\ ctx[o + 4] = meta["source"]
                      /\ ctx[o + 6] = PyToStr(meta["page_num"])
                      /\ ctx[o + 8] = ChunkType(nodes[i].id)
                      /\ ctx[o + 11] = ChunkText(nodes[i].id)
                      /\ (i < n => ctx[o + 13] = Separator)

\* C10 witness: a context of several blocks was rendered.
C10_Witness ==
    /\ IsSet(context)
    /\ Len(Val(retrieved)) = RERANK_TOP_N
    /\ Val(context) # <<>>

\* C10 witness of the empty case: the empty list was rendered as "".
C10_EmptyWitness ==
    IsSet(context) /\ Val(retrieved) = <<>> /\ Val(context) = <<>>

-----------------------------------------------------------------------------
(* Claims about _extract_sources_and_images.                               *)

Range(seq) == {seq[i] : i \in 1..Len(seq)}

\* The visual-reference keywords the specification lists.
ListedKeywords ==
    { <<"f", "i", "g", "u", "r", "e">>, <<"i", "m", "a", "g", "e">>,
      <<"d", "i", "a", "g", "r", "a", "m">>, <<"p", "l", "o", "t">>,
      <<"c", "h", "a", "r", "t">>, <<"g", "r", "a", "p", "h">>,
      <<"s", "h", "o", "w", " ", "m", "e">>, <<"p", "i", "c", "t", "u", "r", "e">> }

\* The message, read without regard to case, contains one of the keywords.
Mentions(message, keywords) == \E k \in keywords : Contains(Lower(message), k)

\* The chunk came from a PDF whose pages carry an image map.
HasImageMap(c) == ChunkStem(c) # "paper_c"

\* The images registered under pages P-1, P and P+1 of chunk c's image map,
\* P being c's page.
WindowImages(c) ==
    LET image_map == ImageMapOf(ChunkStem(c))
    IN  UNION {Range(image_map[p]) :
                 p \in {ChunkPage(c) - 1, ChunkPage(c), ChunkPage(c) + 1}
                        \cap DOMAIN image_map}

\* All images of chunk c's image map.
AllImages(c) ==
    LET image_map == ImageMapOf(ChunkStem(c))
    IN  UNION {Range(image_map[p]) : p \in DOMAIN image_map}

\* The image windows of the given source nodes, together.
WindowsOf(source_nodes) ==
    UNION {WindowImages(source_nodes[i].id) :
              i \in {j \in 1..Len(source_nodes) : HasImageMap(source_nodes[j].id)}}

\* C6: page-window resolution.  The images a retrieved chunk on page P
\* contributes are those registered under pages P-1, P and P+1 of its image
\* map and no others: the returned images always lie in the windows of the
\* source nodes, and are exactly the windows' images whenever image
\* association runs (the message has a visual-reference keyword).
C6_PageWindow ==
    IsSet(ximages) =>
        /\ Range(Val(ximages)) \subseteq WindowsOf(Val(xq).source_nodes)
        /\ Mentions(Val(xq).message, ListedKeywords)
              => Range(Val(ximages)) = WindowsOf(Val(xq).source_nodes)

\* C6 witness: a single chunk with a visual query surfaced the images of its
\* window while its image map holds an image outside the window.
C6_Witness ==
    /\ IsSet(ximages)
    /\ Len(Val(xq).source_nodes) = 1
    /\ Val(ximages) # <<>>
    /\ Mentions(Val(xq).message, ListedKeywords)
    /\ AllImages(Val(xq).source_nodes[1].id) # Range(Val(ximages))

\* C7 as stated: a query that contains none of the eight listed keywords
\* gets an empty image list.
C7_ListedKeywordsOnly ==
    (IsSet(ximages) /\ ~Mentions(Val(xq).message, ListedKeywords))
        => Val(ximages) = <<>>

\* C7 (amended): a query that contains none of the eight listed keywords
\* nor the keyword "visual" gets an empty image list, whatever the chunks.
C7_NoKeywordNoImages ==
    (IsSet(ximages)
     /\ ~Mentions(Val(xq).message, ListedKeywords \cup {<<"v", "i", "s", "u", "a", "l">>}))
        => Val(ximages) = <<>>

\* C7 witness: a query without any keyword got no image although its source
\* nodes have images in their page windows.
C7_Witness ==
    /\ IsSet(ximages)
    /\ ~Mentions(Val(xq).message, ListedKeywords \cup {<<"v", "i", "s", "u", "a", "l">>})
    /\ WindowsOf(Val(xq).source_nodes) # {}
    /\ Val(ximages) = <<>>

\* The distance of a score in 1/1000 from a score in 1/10000, in 1/10000.
Dist(r, x) == IF 10 * r >= x THEN 10 * r - x ELSE x - 10 * r

\* C9: there is exactly one citation record per source node, in the same
\* order, each carrying the source, the page, the content type, the score
\* rounded to 3 decimals and the text preview (the whole text up to 200
\* characters, else its first 200 characters and an ellipsis).
C9_OneCitationPerResult ==
    IsSet(xsources) =>
        LET nodes == Val(xq).source_nodes
            cites == Val(xsources)
        IN  /\ Len(cites) = Len(nodes)
            /\ \A i \in 1..Len(nodes) :
                  LET c == nodes[i].id
                      text == ChunkText(c)
                  IN  /\ cites[i].source = ChunkMetadata(c)["source"]
                      /\ PyToStr(cites[i].page) = StrOfInt(ChunkPage(c))
                      /\ cites[i].content_type = ChunkType(c)
                      /\ IsSet(cites[i].score)
                      /\ 2 * Dist(Val(cites[i].score), nodes[i].score) <= 10
                      /\ Len(text) <= 200 => cites[i].text_preview = text
                      /\ Len(text) > 200 =>
                            cites[i].text_preview
                                = SubSeq(text, 1, 200) \o <<".", ".", ".">>

-----------------------------------------------------------------------------
(* Claims about render_images.                                             *)

\* The candidate passes every test that does not depend on the other
\* candidates: it exists and is readable, is at least 150 x 150, and its
\* width/height lies in [0.2, 5].
PassesAlone(path) ==
    LET f == ImageFile(path)
    IN  /\ f.exists /\ f.opens
        /\ f.width >= 150 /\ f.height >= 150
        /\ f.width <= 5 * f.height /\ 5 * f.width >= f.height

\* The positions of the candidates the claim says are accepted: those that
\* pass alone and whose bytes no earlier accepted candidate had (the first
\* passing candidate of given bytes is the accepted one).
ExpectedPositions(images) ==
    {i \in 1..Len(images) :
        /\ PassesAlone(images[i])
        /\ \A j \in 1..(i - 1) :
              PassesAlone(images[j])
                => ImageFile(images[j]).bytes # ImageFile(images[i]).bytes}

RECURSIVE AtPositions(_, _, _)
\* The subsequence of images at the given positions, from position i on.
AtPositions(images, positions, i) ==
    IF i > Len(images) THEN <<>>
    ELSE (IF i \in positions THEN <<images[i]>> ELSE <<>>)
         \o AtPositions(images, positions, i + 1)

\* C8: the accepted images are, in input order, exactly the candidates that
\* exist and are readable, are at least 150 x 150, have width/height in
\* [0.2, 5.0] and whose content hash was not accepted earlier in the call.
\* So a 100 x 100 image is never accepted, a 300 x 300 image is accepted
\* where its bytes first occur and not again, and an unreadable entry does
\* not stop the images after it.
C8_ImageFilter ==
    IsSet(valid_images) =>
        LET images == Val(candidates)
            valid == Val(valid_images)
        IN  /\ valid = AtPositions(images, ExpectedPositions(images), 1)
            /\ "icon.png" \notin Range(valid)
            /\ ("fig1.png" \in Range(images) /\ "fig1_copy.png" \notin Range(images))
                  => Cardinality({i \in 1..Len(valid) : valid[i] = "fig1.png"}) = 1
            /\ "corrupt.png" \notin Range(valid) /\ "missing.png" \notin Range(valid)

\* C8 witness: an unreadable entry came first, then a 300 x 300 image that
\* was accepted, then an image of the same bytes that was dropped.
C8_Witness ==
    /\ IsSet(valid_images)
    /\ Len(Val(candidates)) = 3
    /\ Val(candidates)[1] = "corrupt.png"
    /\ Val(candidates)[2] = "fig1.png"
    /\ Val(candidates)[3] = "fig1_copy.png"
    /\ Val(valid_images) = <<"fig1.png">>

-----------------------------------------------------------------------------
(* Claims about the chat session.                                          *)

\* Trivial greetings and thanks, as a user types them.
TrivialGreetings == {MsgHi, MsgThanks, MsgThankYou}

CannedReplies == {ReplyHello, ReplyWelcome}

\* C4: a turn that is a trivial greeting or thanks, submitted through
\* stream_chat or chat, gets a fixed canned reply, and neither the retrieval
\* nor the generation collaborator is invoked for it, however many such
\* turns follow one another.
C4_GreetingFastPath ==
    [][ (calls'.turns = calls.turns + 1 /\ Val(eturn').message \in TrivialGreetings)
          => /\ calls'.retrieval = calls.retrieval
             /\ calls'.generation = calls.generation
             /\ Val(eturn').reply \in CannedReplies ]_vars

\* The conversation memory session t's engine uses (none before the session
\* has an engine).
MemoryUsedBy(t) ==
    IF IsSet(session_state[t].chat_engine)
    THEN GetChatHistory(engines[Val(session_state[t].chat_engine)])
    ELSE <<>>

\* C5: conversation memory is owned by one session: a question asked or a
\* Clear Chat performed in one session never changes the conversation
\* memory used by another session.
C5_MemoryOwnedBySession ==
    [][ \A s \in Sessions :
          (Submit(s) \/ WriteStream(s) \/ SaveToHistory(s) \/ ClearChat(s))
            => \A t \in Sessions \ {s} : MemoryUsedBy(t)' = MemoryUsedBy(t) ]_vars

-----------------------------------------------------------------------------
(* Claims about ScientificChunker.                                         *)

\* The document of the list a node was made from, by its page identifier
\* (document j is page j); 0 when the node has none.
NodeDoc(n) ==
    IF IsSet(CurrentPage(n.metadata)) THEN Val(CurrentPage(n.metadata)) ELSE 0

NodeType(n) == MetaGet(n.metadata, "content_type", "")

\* Every entry of the document's metadata is in the node's, unchanged.
CopiedFrom(n, doc) ==
    \A k \in DOMAIN doc.metadata :
        k \in DOMAIN n.metadata /\ n.metadata[k] = doc.metadata[k]

\* The equation or caption a special node holds is part of the document.
MadeFrom(n, doc) ==
    /\ NodeType(n) = "equation" => Contains(doc.text, n.metadata["latex"])
    /\ NodeType(n) = "figure" => Contains(doc.text, n.metadata["caption"])

\* C11: every chunk chunk_documents returns carries the non-empty source and
\* page identifier of the input document it came from, copied unchanged, and
\* a content type that is one of text, table, equation, figure.
C11_MetadataCopied ==
    IsSet(all_nodes) =>
        \A i \in 1..Len(Val(all_nodes)) :
            LET n == Val(all_nodes)[i]
                j == NodeDoc(n)
            IN  /\ j \in 1..Len(Val(docs))
                /\ CopiedFrom(n, Val(docs)[j])
                /\ MadeFrom(n, Val(docs)[j])
                /\ MetaGet(n.metadata, "source", "") # ""
                /\ MetaGet(n.metadata, "page_num", PyStr(<<>>)).v # <<>>
                /\ NodeType(n) \in ContentTypes

\* Two documents were chunked into table, equation and text nodes.
C11_Witness ==
    /\ IsSet(all_nodes)
    /\ {NodeDoc(Val(all_nodes)[i]) : i \in 1..Len(Val(all_nodes))} = {1, 2}
    /\ {"table", "equation", "text"}
          \subseteq {NodeType(Val(all_nodes)[i]) : i \in 1..Len(Val(all_nodes))}

TypeRank(type) ==
    CASE type = "table"    -> 1
      [] type = "equation" -> 2
      [] type = "figure"   -> 3
      [] OTHER             -> 4

\* The positions of the returned list that hold document j's nodes of a type.
NodesOf(j, type) ==
    {i \in 1..Len(Val(all_nodes)) :
        NodeDoc(Val(all_nodes)[i]) = j /\ NodeType(Val(all_nodes)[i]) = type}

\* The number of nodes of a type that document j's text calls for.
Produced(j, type) ==
    IF type = "text"
    THEN (IF Strip(Val(residual)[j], Whitespace) = <<>> THEN 0 ELSE 1)
    ELSE Len(FindIter(type, Val(docs)[j].text, 1))

\* C12: chunk_documents returns the documents' chunks in document order,
\* each document's tables, then equations, then figures, then text chunks;
\* no chunk is dropped, and a document whose text is blank gives no chunk.
C12_OrderedAndComplete ==
    IsSet(all_nodes) =>
        /\ \A j \in 1..Len(Val(docs)), type \in ContentTypes :
               Cardinality(NodesOf(j, type)) = Produced(j, type)
        /\ \A i \in 1..Len(Val(all_nodes)) :
               NodeDoc(Val(all_nodes)[i]) \in 1..Len(Val(docs))
        /\ \A a, b \in 1..Len(Val(all_nodes)) :
               a < b =>
                 LET x == Val(all_nodes)[a]
                     y == Val(all_nodes)[b]
                 IN  \/ NodeDoc(x) < NodeDoc(y)
                     \/ /\ NodeDoc(x) = NodeDoc(y)
                        /\ TypeRank(NodeType(x)) <= TypeRank(NodeType(y))
        /\ \A j \in 1..Len(Val(docs)) :
               Strip(Val(docs)[j].text, Whitespace) = <<>>
                   => \A type \in ContentTypes : NodesOf(j, type) = {}

\* A blank first document gave nothing; the second gave a table and text.
C12_Witness ==
    /\ IsSet(all_nodes)
    /\ Len(Val(docs)) = 2
    /\ Val(docs)[1].text = Blank
    /\ NodesOf(2, "table") # {} /\ NodesOf(2, "text") # {}
    /\ \A type \in ContentTypes : NodesOf(1, type) = {}

\* The spans pattern.finditer(text) matches.
MatchedSpans(pattern, text) ==
    LET matches == FindIter(pattern, text, 1)
    IN  {SubSeq(text, matches[k].start, matches[k].end) : k \in 1..Len(matches)}

IsBlockEquation(span) == Take(span, 2) = <<"$", "$">>

\* C13 as stated: the residual text holds no occurrence of any span that the
\* extractor matched as a table, an equation or a figure caption.
C13_NoMatchedSpanRemains ==
    IsSet(residual) =>
        \A j \in 1..Len(Val(docs)), pattern \in {"table", "equation", "figure"} :
            \A span \in MatchedSpans(pattern, Val(docs)[j].text) :
                ~Contains(Val(residual)[j], span)

\* C13, amended: the residual text holds no occurrence of any span matched
\* as a table, as a block equation ($$...$$) or as a figure caption; an
\* inline equation ($...$) is extracted and also kept.
C13_NoRemovedSpanRemains ==
    IsSet(residual) =>
        \A j \in 1..Len(Val(docs)), pattern \in {"table", "equation", "figure"} :
            \A span \in MatchedSpans(pattern, Val(docs)[j].text) :
                (pattern = "equation" => IsBlockEquation(span))
                    => ~Contains(Val(residual)[j], span)

\* A page with an inline and a block equation: the first stays in the
\* residual text, the second does not.
C13_Witness ==
    /\ IsSet(residual)
    /\ \E j \in 1..Len(Val(docs)) :
          /\ InlineEquation \in MatchedSpans("equation", Val(docs)[j].text)
          /\ BlockEquation \in MatchedSpans("equation", Val(docs)[j].text)
          /\ Contains(Val(residual)[j], InlineEquation)
          /\ ~Contains(Val(residual)[j], BlockEquation)

\* C14: for the text "Revenue | Cost\n---|---\n100 | 50\n" preceded by a
\* sentence, there is exactly one table chunk, its body starts with "TABLE:"
\* and contains the pipe rows, and the residual text holds a placeholder.
C14_LooseTableExtracted ==
    IsSet(all_nodes) =>
        \A j \in 1..Len(Val(docs)) :
            Val(docs)[j].text = Sentence \o LooseTable =>
                /\ Cardinality(NodesOf(j, "table")) = 1
                /\ \A i \in NodesOf(j, "table") :
                       /\ Take(Val(all_nodes)[i].text, 6) = Take(TableMarker, 6)
                       /\ Contains(Val(all_nodes)[i].text, LooseTable)
                /\ Contains(Val(residual)[j], TableRemoved)

-----------------------------------------------------------------------------
(* Claims about the PDF parsers and the ingestion script.                  *)

\* The run has finished step 1.
Parsed == IsSet(ingest) /\ Val(ingest).pc \notin {"idle", "start"}

\* The parser the run used.
ParserUsed == IF Val(ingest).llama_parse THEN "PDFParser" ELSE "PyMuPDFParser"

\* The pages of a file a parser makes a document of.
PagesKept(parser, file) ==
    {p \in 1..Len(file.pages) :
        parser = "PDFParser" \/ Strip(file.pages[p], Whitespace) # <<>>}

\* The positions in documents of the documents of page p of a file.
DocsOfPage(documents, file, p) ==
    {d \in 1..Len(documents) :
        /\ documents[d].metadata.source = PdfName(file.stem)
        /\ Val(IntOrNone(documents[d].metadata.page_num)) = p}

\* C15: after the batch extraction of a run, a file that failed to parse
\* contributes no document, every page a parser keeps of every other file
\* of the directory has exactly one document, with the page's text, those
\* documents stand in the order of the files and pages, and there is no
\* further document.
C15_FailuresSkipped ==
    Parsed =>
      LET files == Val(pdf_files)
          documents == Val(ingest).documents
          source(d) == documents[d].metadata.source
      IN  /\ \A a \in 1..Len(files) :
                IF ~files[a].readable
                THEN \A d \in 1..Len(documents) : source(d) # PdfName(files[a].stem)
                ELSE \A p \in PagesKept(ParserUsed, files[a]) :
                        /\ Cardinality(DocsOfPage(documents, files[a], p)) = 1
                        /\ \A d \in DocsOfPage(documents, files[a], p) :
                              documents[d].text = files[a].pages[p]
          /\ Len(documents) =
                SumSeq([a \in 1..Len(files) |->
                           IF files[a].readable
                           THEN Cardinality(PagesKept(ParserUsed, files[a]))
                           ELSE 0])
          /\ \A d, e \in 1..Len(documents) : \A a, b \in 1..Len(files) :
                /\ d < e
                /\ source(d) = PdfName(files[a].stem)
                /\ source(e) = PdfName(files[b].stem)
                => /\ a <= b
                   /\ a = b => Val(IntOrNone(documents[d].metadata.page_num))
                                  < Val(IntOrNone(documents[e].metadata.page_num))

\* A file that fails to parse stands before a file that parses, and the
\* batch returned the documents of the latter.
C15_Witness ==
    /\ Parsed
    /\ Len(Val(pdf_files)) >= 2
    /\ ~Val(pdf_files)[1].readable
    /\ Val(pdf_files)[2].readable
    /\ Val(ingest).documents # <<>>


\* C16: a run that got as far as embedding or storing has at least one
\* document and at least one chunk; a run with none of either stopped
\* before, with exit status 1.
C16_EmptyRunExits ==
    IsSet(ingest) =>
      /\ Val(ingest).pc \in {"embedded", "deleted", "reset", "done", "crashed"}
            => Val(ingest).documents # <<>> /\ Val(ingest).nodes # <<>>
      /\ Val(ingest).pc = "exit1" => Val(ingest).documents = <<>>

\* C19: whatever a manager in another process reads while the script
\* resets the collection, get_collection_stats finds a collection.
C19_ReaderAlwaysFindsCollection ==
    IsSet(reader) =>
      \A r \in Readers :
         IsSet(Val(reader)[r].stats) => Val(Val(reader)[r].stats).found

-----------------------------------------------------------------------------
(* Claims about the application's question flow.                           *)

AssistantAppended(s) ==
    /\ IsSet(session_state[s].messages)
    /\ IsSet(session_state'[s].messages)
    /\ Len(Val(session_state'[s].messages)) = Len(Val(session_state[s].messages)) + 1
    /\ Val(session_state'[s].messages)[Len(Val(session_state'[s].messages))].role
          = "assistant"

-----------------------------------------------------------------------------
(* Claims about the image list of _extract_sources_and_images.             *)

\* The images list before deduplication: what the source nodes queued, in
\* the order of the chunk and page iteration.
QueuedImages ==
    Concat([i \in 1..Len(Val(xq).source_nodes) |->
               NodeImages(Val(xq).source_nodes[i],
                          ShouldExtractImages(Val(xq).message))])

\* Where a path is queued first.
FirstQueued(queued, path) ==
    CHOOSE i \in 1..Len(queued) :
       /\ queued[i] = path
       /\ \A j \in 1..(i - 1) : queued[j] # path

\* C20: the returned image list holds every queued path, no path twice, and
\* the paths stand in the order in which they were queued first.
C20_UniqueInFirstInsertionOrder ==
    IsSet(ximages) =>
       LET unique_images == Val(ximages)
           queued == QueuedImages
           first == [i \in 1..Len(unique_images) |->
                        FirstQueued(queued, unique_images[i])]
       IN  /\ Range(unique_images) = Range(queued)
           /\ \A i, j \in 1..Len(unique_images) :
                 i < j => /\ unique_images[i] # unique_images[j]
                          /\ first[i] < first[j]

\* A path was queued by more than one chunk or page and is returned once.
C20_Witness ==
    /\ IsSet(ximages)
    /\ Len(Val(ximages)) >= 2
    /\ LET queued == QueuedImages
       IN  \E i, j \in 1..Len(queued) : i < j /\ queued[i] = queued[j]

-----------------------------------------------------------------------------
(* Claims about the stages of ScientificRetriever.retrieve.                *)

\* The candidates fetched for the last query, nearest first.
Fetched == VectorIndexRetrieve(Val(rq).query, SIMILARITY_TOP_K)

\* Candidate n passes the cutoff and the content-type filter of the last
\* query (no filter is applied for None or an empty list).
Passes(n) ==
    /\ n.score >= SimilarityCutoff
    /\ \/ ~IsSet(Val(rq).content_types)
       \/ Val(Val(rq).content_types) = {}
       \/ ChunkType(n.id) \in Val(Val(rq).content_types)

\* The positions in the fetched candidates of those that pass.
PassingPositions == {i \in 1..Len(Fetched) : Passes(Fetched[i])}

\* C21: the result of retrieve() is the first rerank_top_n passing
\* candidates in candidate order: its k-th element is the candidate at the
\* k-th passing position, and a passing candidate is left out only when at
\* least rerank_top_n passing candidates precede it.
C21_StagesInOrder ==
    IsSet(retrieved) =>
       LET fetched == Fetched
           passing == PassingPositions
           rank(i) == Cardinality({j \in passing : j <= i})
           result == Val(retrieved)
       IN  /\ Len(result) = Min(Cardinality(passing), RERANK_TOP_N)
           /\ \A i \in passing :
                 IF rank(i) <= RERANK_TOP_N
                 THEN result[rank(i)] = fetched[i]
                 ELSE \A k \in 1..Len(result) : result[k] # fetched[i]

\* A candidate among the first rerank_top_n fetched does not pass, one
\* beyond them is returned, and a passing candidate is left out.
C21_Witness ==
    /\ IsSet(retrieved)
    /\ Len(Val(retrieved)) = RERANK_TOP_N
    /\ Cardinality(PassingPositions) > RERANK_TOP_N
    /\ \E i \in 1..RERANK_TOP_N : i \notin PassingPositions
    /\ \E i \in PassingPositions :
          i > RERANK_TOP_N /\ Val(retrieved)[RERANK_TOP_N] = Fetched[i]

-----------------------------------------------------------------------------
(* Claims about the context of table chunks and about the removal pass.    *)

\* The text that precedes a block starting at position start (1-based): from
\* the last line break that lies at least TableLookBack characters before
\* the block, or from the start of the text when there is none, up to the
\* block, without the white space around it.
PrecedingContext(text, start) ==
    LET line_break == LastChar(text, 1, Max(0, start - 1 - TableLookBack), Newline)
    IN  Strip(SubSeq(text, line_break + 1, start - 1), Whitespace)

\* C22: every table block matched on a page has a table chunk whose body is
\* the TABLE: marker, the text preceding the block, an empty line and the
\* matched block, and whose context field is that preceding text cut to 200
\* characters.
C22_TableContextKept ==
    IsSet(all_nodes) =>
       \A j \in 1..Len(Val(docs)) :
          LET text == Val(docs)[j].text
              matches == FindIter("table", text, 1)
          IN  \A k \in 1..Len(matches) :
                 LET preceding == PrecedingContext(text, matches[k].start)
                     block == SubSeq(text, matches[k].start, matches[k].end)
                 IN  \E i \in NodesOf(j, "table") :
                        /\ Val(all_nodes)[i].text =
                              TableMarker \o preceding \o <<"\n", "\n">> \o block
                        /\ Val(all_nodes)[i].metadata["context"] =
                              Take(preceding, ContextLimit)


\* The positions of a text that lie in a span extracted as a table, as a
\* block equation or as a figure caption.
ExtractedPositions(text) ==
    {p \in 1..Len(text) :
        \E pattern \in {"table", "block_equation", "figure"} :
           \E m \in Range(FindIter(pattern, text, 1)) : m.start <= p /\ p <= m.end}

RECURSIVE OutsideText(_, _, _)
\* The characters of text from position p on that lie at no position of
\* covered, in their order.
OutsideText(text, covered, p) ==
    IF p > Len(text) THEN <<>>
    ELSE (IF p \in covered THEN <<>> ELSE <<text[p]>>)
         \o OutsideText(text, covered, p + 1)

\* The string sub stands in text at position p.
StandsAt(text, sub, p) ==
    p + Len(sub) - 1 <= Len(text) /\ SubSeq(text, p, p + Len(sub) - 1) = sub

RECURSIVE CountOf(_, _, _)
\* How often the string sub occurs in text from position p on.
CountOf(text, sub, p) ==
    IF p > Len(text) THEN 0
    ELSE IF StandsAt(text, sub, p) THEN 1 + CountOf(text, sub, p + Len(sub))
         ELSE CountOf(text, sub, p + 1)

Placeholders == {TableRemoved, EquationRemoved, FigureRemoved}

RECURSIVE WithoutPlaceholders(_, _)
\* The text from position p on with the three placeholders taken out.
WithoutPlaceholders(text, p) ==
    IF p > Len(text) THEN <<>>
    ELSE IF \E mark \in Placeholders : StandsAt(text, mark, p)
         THEN LET mark == CHOOSE mark \in Placeholders : StandsAt(text, mark, p)
              IN  WithoutPlaceholders(text, p + Len(mark))
         ELSE <<text[p]>> \o WithoutPlaceholders(text, p + 1)

\* C25: the residual text of a page is the page text with the spans
\* extracted as table, block-equation and figure chunks replaced by
\* placeholders: it holds one placeholder for every extracted span, and
\* without the placeholders it is the text outside the extracted spans.
C25_RemovalMatchesExtraction ==
    IsSet(residual) =>
       \A j \in 1..Len(Val(docs)) :
          LET text == Val(docs)[j].text
              rest == Val(residual)[j]
          IN  /\ CountOf(rest, TableRemoved, 1) = Len(FindIter("table", text, 1))
              /\ CountOf(rest, EquationRemoved, 1)
                    = Len(FindIter("block_equation", text, 1))
              /\ CountOf(rest, FigureRemoved, 1) = Len(FindIter("figure", text, 1))
              /\ WithoutPlaceholders(rest, 1)
                    = OutsideText(text, ExtractedPositions(text), 1)

-----------------------------------------------------------------------------
(* Claims about re-ingestion.                                              *)

\* C23: when a run of the ingestion script has completed, the collection
\* exists and holds exactly the chunks that run produced, none of an
\* earlier run, however many runs came before.
C23_ReplacedWholesale ==
    (IsSet(ingest) /\ Val(ingest).pc = "done") =>
       /\ Val(collection).exists
       /\ Val(collection).items
             = StoredItems(Val(ingest).run, Val(ingest).embedded_nodes)
       /\ Cardinality(Val(collection).items) = Len(Val(ingest).nodes)
       /\ \A item \in Val(collection).items : item[1] = Val(ingest).run

\* A second run has completed and stored chunks, and a reader had seen the
\* collection with the chunk of run 0 before.
C23_Witness ==
    /\ IsSet(ingest) /\ Val(ingest).pc = "done" /\ Val(ingest).run = 2
    /\ Val(collection).items # {}
    /\ \E r \in Readers :
          /\ IsSet(Val(reader)[r].stats)
          /\ Val(Val(reader)[r].stats).found
          /\ Val(Val(reader)[r].stats).document_count
                \notin {0, Cardinality(Val(collection).items)}

-----------------------------------------------------------------------------
(* Claims about reset and about the greeting fast path.                    *)

\* C24: no call of the engine's API, reset included, changes the
\* similarity_top_k the engine retrieves with: it stays the one the engine
\* was constructed with.
C24_ResetKeepsTopK ==
    [][\A e \in 1..Len(engines) :
          e <= Len(engines') =>
             engines'[e].similarity_top_k = engines[e].similarity_top_k]_vars


\* C26: a call of stream_chat with a greeting leaves the engine, and with it
\* the chat history, as it was; its response has no citation and no image,
\* and its fragments put together are the canned reply for the greeting.
C26_GreetingLeavesMemory ==
    [][(/\ calls'.turns = calls.turns + 1
        /\ Val(eturn').api = "stream_chat"
        /\ IsGreeting(Val(eturn').message))
          => /\ GetChatHistory(engines'[1]) = GetChatHistory(engines[1])
             /\ engines' = engines
             /\ Val(eturn').sources = <<>>
             /\ Val(eturn').images = <<>>
             /\ Val(eturn').reply = GreetingReply(Val(eturn').message)]_vars

\* A greeting was answered by stream_chat after a question had been put
\* into the memory.
C26_Witness ==
    /\ IsSet(eturn)
    /\ Val(eturn).api = "stream_chat"
    /\ IsGreeting(Val(eturn).message)
    /\ Val(eturn).reply = ReplyWelcome
    /\ GetChatHistory(engines[1]) # <<>>

=============================================================================
